---- MODULE Spec2Model ----
(***************************************************************************)
(* A model of ig_researcher's anti-detection content-discovery engine:     *)
(* the RateLimiter (browser/rate_limiter.py), InstagramActions.search      *)
(* (browser/actions.py) with its caller search_instagram                   *)
(* (agent/tools/search.py), and the two-stage pipeline                     *)
(* fetch_and_analyze_posts (agent/tools/fetch.py).                         *)
(*                                                                         *)
(* Time is fixed-point: one unit is a millisecond.  Floating point values  *)
(* of the source (seconds) are held in milliseconds and products with the  *)
(* jitter factor are truncated to a whole millisecond.                     *)
(***************************************************************************)
EXTENDS Integers, Sequences, FiniteSets, TLC

VARIABLES
    now,          \* datetime.now(), in milliseconds since the model's start
    limiter,      \* the RateLimiter object: _counters, _current_backoff,
                  \* _consecutive_failures, _blocked_until
    fresh_run,    \* history: no record_action since construction / reset()
    \* InstagramActions and the search generator it runs
    keep_page_open,  \* InstagramActions._keep_page_open
    active_page,     \* InstagramActions._active_page: "none", "open", "closed"
    open_pages,      \* pages opened by search and not closed since
    s_pc,            \* where the search generator stands
    s_args,          \* its arguments content_type and limit
    page,            \* the local `page` of search: "none", "open", "closed"
    seen,            \* the dedup map, in insertion order
    item,            \* the loop variable of _merge_items
    current_count, no_growth, scroll_idx,   \* locals of the collect loop
    yielded,         \* the items the generator has yielded
    s_end,           \* what was in flight when the generator reached its
                     \* finally: "running" before, then "returned" or the
                     \* class of the exception being raised
    wall,            \* what the wall checks of this search found
    start_limiter,   \* history: the limiter when this search entered its try
    \* search_instagram
    t_pc,            \* where the tool call stands
    t_content_type,  \* its local content_type
    t_limit,         \* its local limit
    t_attempt,       \* which of its two searches runs
    t_results,       \* its local results
    response,        \* the payload it returned
    calls,           \* tool calls started so far
    \* fetch_and_analyze_posts
    settings,        \* instaloader_concurrency and analysis_concurrency
    b_pc,            \* where the batch call stands
    tasks,           \* one _process task per shortcode of the batch
    fetch_sem,       \* free permits of fetch_sem
    analyze_sem,     \* free permits of analyze_sem
    b_response,      \* what the batch call returned
    \* tasks that share the RateLimiter
    w_pc,            \* where each task stands
    w_backoff,       \* the local `backoff` of its wait_if_needed
    w_wake,          \* when its asyncio.sleep ends
    w_seen,          \* history: the limiter when its wait_if_needed suspended
    \* one call of a limiter method
    checked,         \* the method called, its action_type, what it returned
    \* HumanBehavior and one call of its scroll_to_load_more
    humanizer,       \* config.fast_mode, _action_count, _session_limit
    simulated,       \* history: simulated actions since construction or the last break
    l_pc,            \* where scroll_to_load_more stands
    l_args,          \* its target_count and max_scrolls
    l_page_count,    \* how many items match count_selector on the page
    l_iter,          \* iterations of its for loop begun
    l_current_count, \* its local current_count
    l_no_change,     \* its local no_change_count
    l_new_count,     \* its local new_count, the last measurement
    l_not_grown,     \* history: consecutive measurements not above the one before
    l_scrolls,       \* history: human_scroll calls it made
    l_returned,      \* what it returned
    \* the wall checks of one search
    view,            \* what the checks read from the loaded page
    login_required,  \* what _is_login_required returned
    \* the MCP server's search_instagram tool, called concurrently
    m_pc,            \* where each tool call stands
    m_close,         \* its close_browser argument
    browser_lock,    \* the call that holds app_ctx.browser_lock, or 0
    started,         \* the persistent session has an open browser context
    m_lost,          \* history: calls whose search was in flight at a close
    \* tasks that share one HumanBehavior
    h_pc             \* where each task stands in _check_session_limit

rate_vars == <<now, limiter, fresh_run>>
actions_vars == <<keep_page_open, active_page, open_pages, s_pc, s_args, page,
                  seen, current_count, no_growth, scroll_idx, yielded, s_end,
                  wall, start_limiter>>
tool_vars == <<t_pc, t_content_type, t_limit, t_attempt, t_results, response, calls>>
search_vars == <<actions_vars, tool_vars>>
merge_vars == <<item>>
pipe_vars == <<settings, b_pc, tasks, fetch_sem, analyze_sem, b_response>>
caller_vars == <<w_pc, w_backoff, w_wake, w_seen>>
check_vars == <<checked>>
human_vars == <<humanizer, simulated, l_pc, l_args, l_page_count, l_iter,
                l_current_count, l_no_change, l_new_count, l_not_grown,
                l_scrolls, l_returned>>
wall_vars == <<view, login_required>>
mcp_vars == <<m_pc, m_close, browser_lock, started, m_lost>>
break_vars == <<h_pc>>
vars == <<rate_vars, search_vars, merge_vars, pipe_vars, caller_vars, check_vars,
          human_vars, wall_vars, mcp_vars, break_vars>>

----------------------------------------------------------------------------
(* Units *)

Ms == 10 * 100                 \* milliseconds in a second
Minute == 60 * Ms
Hour == 60 * Minute

(* RateLimitConfig defaults, rate_limiter.py:22-40 *)
max_searches_per_hour == 20
max_profile_views_per_hour == 50
max_scroll_actions_per_hour == 100
default_limit == 50
initial_backoff_seconds == 5
max_backoff_seconds == 300
backoff_multiplier == 2
jitter_factor_pct == 30        \* jitter_factor = 0.3
min_backoff_ms == 100          \* the floor max(0.1, ...) of _calculate_backoff
max_consecutive_failures == 5
block_cooldown_min_minutes == 30
block_cooldown_max_minutes == 120
backoff_failures == 3          \* "self._consecutive_failures >= 3"
soft_limit_pct == 80           \* "current >= limit * 0.8"
window_hours == 1              \* ActionCounter.window_duration

(* Bounds of the model *)
MaxFailures == 7               \* record_failure calls without a success
MaxTimedFailures == 5          \* the same, where the clock runs as well
MaxCount == 1                  \* actions recorded per counter window
MaxHours == 2                  \* the clock stops at this hour
MaxLimit == 3                  \* the largest limit a search is asked for
MaxDom == 2                    \* anchors the page shows at one collect
MaxCalls == 1                  \* tool calls on one session
MaxBatch == 3                  \* shortcodes in one batch
MaxConcurrency == 2            \* the largest concurrency setting
MaxCallers == 2                \* tasks that share one RateLimiter

----------------------------------------------------------------------------
(* Inputs drawn by the random module *)

\* random.uniform(-1, 1): the two ends and the middle
JitterDraws == {-1, 0, 1}
MidDraw == CHOOSE u \in JitterDraws : -u = u

\* random.randint(block_cooldown_min_minutes, block_cooldown_max_minutes)
BlockDraws == {block_cooldown_min_minutes, block_cooldown_max_minutes}

ActionTypes == {"search", "like"}

\* how far the environment lets the clock run between two calls
TickSteps == {31 * Minute, 61 * Minute}

NoDeadline == -1               \* _blocked_until = None
NoCounter == [count |-> -1, window_start |-> -1]   \* key absent from _counters

Min(a, b) == IF a < b THEN a ELSE b
Max(a, b) == IF a > b THEN a ELSE b

----------------------------------------------------------------------------
(* ActionCounter *)

\* a window that slides on by one duration instead of restarting now
maybe_reset_window_slide(c, t) ==
    IF t - c.window_start > window_hours * Hour
    THEN [count |-> 0, window_start |-> c.window_start + window_hours * Hour]
    ELSE c

\* ActionCounter._maybe_reset_window
maybe_reset_window(c, t) ==
    IF t - c.window_start > window_hours * Hour
    THEN [count |-> 0, window_start |-> t]
    ELSE c

\* an increment that never starts a new window
increment_no_reset(c, t) == [c EXCEPT !.count = c.count + 1]

\* ActionCounter.increment
increment(c, t) ==
    LET r == maybe_reset_window(c, t)
    IN  [r EXCEPT !.count = r.count + 1]

\* RateLimiter._get_counter: get or create
get_counter(L, a, t) ==
    IF L.counters[a] = NoCounter
    THEN [count |-> 0, window_start |-> t]
    ELSE L.counters[a]

\* RateLimiter._get_limit
get_limit(a) ==
    CASE a = "search" -> max_searches_per_hour
      [] a = "profile_view" -> max_profile_views_per_hour
      [] a = "scroll" -> max_scroll_actions_per_hour
      [] OTHER -> default_limit

----------------------------------------------------------------------------
(* RateLimiter *)

\* RateLimiter.__init__
NewRateLimiter ==
    [counters |-> [a \in ActionTypes |-> NoCounter],
     current_backoff |-> 0,
     consecutive_failures |-> 0,
     blocked_until |-> NoDeadline]

\* "self._blocked_until and datetime.now() < self._blocked_until"
is_blocked(L, t) == L.blocked_until # NoDeadline /\ t < L.blocked_until

\* a check_state that looks at the counter before the block deadline
check_state_counter_first(L, a, t) ==
    LET current == maybe_reset_window(get_counter(L, a, t), t).count
        limit == get_limit(a)
    IN  IF current >= limit THEN "HARD_LIMIT"
        ELSE IF is_blocked(L, t) THEN "BLOCKED"
        ELSE IF current * 100 >= limit * soft_limit_pct THEN "SOFT_LIMIT"
        ELSE "OK"

\* a check_state whose soft limit starts one action late
check_state_soft_late(L, a, t) ==
    IF is_blocked(L, t) THEN "BLOCKED"
    ELSE LET current == maybe_reset_window(get_counter(L, a, t), t).count
             limit == get_limit(a)
         IN  IF current >= limit THEN "HARD_LIMIT"
             ELSE IF current * 100 > limit * soft_limit_pct THEN "SOFT_LIMIT"
             ELSE "OK"

\* RateLimiter.check_state: the state it returns
check_state(L, a, t) ==
    IF is_blocked(L, t) THEN "BLOCKED"
    ELSE LET current == maybe_reset_window(get_counter(L, a, t), t).count
             limit == get_limit(a)
         IN  IF current >= limit THEN "HARD_LIMIT"
             ELSE IF current * 100 >= limit * soft_limit_pct THEN "SOFT_LIMIT"
             ELSE "OK"

\* RateLimiter.check_state: what it leaves in _counters (the counter is created
\* and its window reset by get_count, unless the block check returned first)
after_check_state(L, a, t) ==
    IF is_blocked(L, t) THEN L
    ELSE [L EXCEPT !.counters[a] = maybe_reset_window(get_counter(L, a, t), t)]

\* _calculate_backoff without the cap at max_backoff_seconds
calculate_backoff_uncapped(current_backoff, u) ==
    LET base == IF current_backoff = 0
                THEN initial_backoff_seconds * Ms
                ELSE current_backoff * backoff_multiplier
        jitter == (base * jitter_factor_pct * u) \div 100
    IN  Max(min_backoff_ms, base + jitter)

\* RateLimiter._calculate_backoff, with u the draw of random.uniform(-1, 1)
calculate_backoff(current_backoff, u) ==
    LET base == IF current_backoff = 0
                THEN initial_backoff_seconds * Ms
                ELSE Min(current_backoff * backoff_multiplier,
                         max_backoff_seconds * Ms)
        jitter == (base * jitter_factor_pct * u) \div 100
    IN  Max(min_backoff_ms, base + jitter)

\* a record_action that counts the action twice
record_action_twice(L, a, t) ==
    [L EXCEPT !.counters[a] = increment(increment(get_counter(L, a, t), t), t),
              !.consecutive_failures = 0,
              !.current_backoff = 0]

\* a record_action that forgives the failures of "search" only
record_action_per_type(L, a, t) ==
    IF a = "search"
    THEN [L EXCEPT !.counters[a] = increment(get_counter(L, a, t), t),
                   !.consecutive_failures = 0,
                   !.current_backoff = 0]
    ELSE [L EXCEPT !.counters[a] = increment(get_counter(L, a, t), t)]

\* RateLimiter.record_action
record_action(L, a, t) ==
    [L EXCEPT !.counters[a] = increment(get_counter(L, a, t), t),
              !.consecutive_failures = 0,
              !.current_backoff = 0]

\* record_failure that blocks one failure late
record_failure_late(L, a, is_rate_limit, u, m, t) ==
    LET n == L.consecutive_failures + 1
    IN  [L EXCEPT
           !.consecutive_failures = n,
           !.current_backoff =
               IF is_rate_limit \/ n >= backoff_failures
               THEN calculate_backoff(L.current_backoff, u)
               ELSE L.current_backoff,
           !.blocked_until =
               IF n > max_consecutive_failures
               THEN t + m * Minute
               ELSE L.blocked_until]

\* a record_failure that recomputes the backoff on every failure
record_failure_always_backoff(L, a, is_rate_limit, u, m, t) ==
    LET n == L.consecutive_failures + 1
    IN  [L EXCEPT
           !.consecutive_failures = n,
           !.current_backoff = calculate_backoff(L.current_backoff, u),
           !.blocked_until =
               IF n >= max_consecutive_failures
               THEN t + m * Minute
               ELSE L.blocked_until]

\* RateLimiter.record_failure, with u and m the draws of random.uniform and
\* random.randint (each used only on the branch that draws it)
record_failure(L, a, is_rate_limit, u, m, t) ==
    LET n == L.consecutive_failures + 1
    IN  [L EXCEPT
           !.consecutive_failures = n,
           !.current_backoff =
               IF is_rate_limit \/ n >= backoff_failures
               THEN calculate_backoff(L.current_backoff, u)
               ELSE L.current_backoff,
           !.blocked_until =
               IF n >= max_consecutive_failures
               THEN t + m * Minute
               ELSE L.blocked_until]

\* The draws record_failure makes from limiter L: random.uniform only where
\* _calculate_backoff is called, random.randint only where the block is set.
\* Where no draw is made the model passes the middle and the minimum.
jitter_draws(L, is_rate_limit) ==
    IF is_rate_limit \/ L.consecutive_failures + 1 >= backoff_failures
    THEN JitterDraws ELSE {MidDraw}

block_draws(L) ==
    IF L.consecutive_failures + 1 >= max_consecutive_failures
    THEN BlockDraws ELSE {block_cooldown_min_minutes}

\* RateLimiter.wait_if_needed: how long it sleeps
wait_time(L, a, u, t) ==
    CASE check_state(L, a, t) = "BLOCKED" -> L.blocked_until - t
      [] check_state(L, a, t) = "HARD_LIMIT" -> calculate_backoff(L.current_backoff, u)
      [] OTHER -> 0

\* RateLimiter.wait_if_needed: the limiter it leaves
wait_if_needed(L, a, u, t) ==
    CASE check_state(L, a, t) = "BLOCKED" ->
            [L EXCEPT !.blocked_until = NoDeadline]
      [] check_state(L, a, t) = "HARD_LIMIT" ->
            [after_check_state(L, a, t) EXCEPT
                !.current_backoff = calculate_backoff(L.current_backoff, u)]
      [] OTHER -> after_check_state(L, a, t)

----------------------------------------------------------------------------
(* The page as InstagramActions.search reads it *)

Shortcodes == {"a", "b"}
NoCode == ""                   \* an href the shortcode pattern does not match
NoThumb == "None"              \* the anchor holds no img: thumbnail_url null
ContentTypes == {"all", "reels", "posts"}
Limits == 0 .. MaxLimit

\* Python truthiness of a thumbnail_url
falsy(x) == x = NoThumb \/ x = ""

\* The anchors the results selector matches, as the page script sees them
Links(codes, thumbs) == [kind : {"reel", "p"}, code : codes, img : thumbs]

SeqsUpTo(S, n) == UNION {[1 .. k -> S] : k \in 0 .. n}

\* img.src of the anchors: no img, an img without src, two sources
Thumbs == {NoThumb, "", "t1", "t2"}

\* an anchor whose href the shortcode pattern does not match: the filter of
\* the page script drops it whatever its kind
Unmatched == [kind |-> "p", code |-> NoCode, img |-> NoThumb]

\* what document.querySelectorAll(selector) can hold when search collects
SearchDoms == SeqsUpTo(Links(Shortcodes, {NoThumb}) \cup {Unmatched}, MaxDom)

\* _collect_items: the page script's map over the anchors
to_item(a) ==
    [shortcode |-> a.code,
     content_type |-> IF a.kind = "reel" THEN "reel" ELSE "post",
     url |-> <<a.kind, a.code>>,
     thumbnail_url |-> a.img]

\* the loop variable of _merge_items before the loop runs
NoItem == to_item([kind |-> "p", code |-> NoCode, img |-> NoThumb])

\* _collect_items: map, then filter(item => item.shortcode)
collect_items(dom) ==
    SelectSeq([i \in 1 .. Len(dom) |-> to_item(dom[i])],
              LAMBDA it : it.shortcode # NoCode)

\* seen.get(key): the position of the entry, 0 when absent
index_of(map, key) ==
    IF \E i \in 1 .. Len(map) : map[i].shortcode = key
    THEN CHOOSE i \in 1 .. Len(map) : map[i].shortcode = key
    ELSE 0

\* a merge in which the incoming item replaces the existing entry
merge_one_overwrite(it, map) ==
    IF it.shortcode = NoCode THEN map
    ELSE LET i == index_of(map, it.shortcode)
         IN  IF i = 0 THEN Append(map, it) ELSE [map EXCEPT ![i] = it]

\* _merge_items: the body of its loop
merge_one(it, map) ==
    IF it.shortcode = NoCode THEN map
    ELSE LET i == index_of(map, it.shortcode)
         IN  IF i = 0 THEN Append(map, it)
             ELSE IF falsy(map[i].thumbnail_url) /\ ~falsy(it.thumbnail_url)
                  THEN [map EXCEPT ![i].thumbnail_url = it.thumbnail_url]
                  ELSE map

\* _merge_items
RECURSIVE merge_items(_, _)
merge_items(items, map) ==
    IF items = <<>> THEN map
    ELSE merge_items(Tail(items), merge_one(Head(items), map))

\* math.ceil(limit / 10)
ceil_tenth(limit) == -((-limit) \div 10)

\* a scroll budget without its floor of 5 and its +6
max_scrolls_tight(limit) == Min(40, Max(1, ceil_tenth(limit)))

\* a scroll budget of one iteration more
max_scrolls_loose(limit) == Min(40, Max(5, ceil_tenth(limit) + 6)) + 1

\* max_scrolls = min(40, max(5, math.ceil(limit / 10) + 6))
max_scrolls(limit) == Min(40, Max(5, ceil_tenth(limit) + 6))

\* "if no_growth >= 3"
stall_limit == 3

\* results[:limit + 1]
take_inclusive(results, limit) ==
    SubSeq(results, 1, Min(limit + 1, Len(results)))

\* results[:limit]
take(results, limit) ==
    IF limit >= 0 THEN SubSeq(results, 1, Min(limit, Len(results)))
    ELSE SubSeq(results, 1, Max(0, Len(results) + limit))

\* the filter by content_type of search
filter_type(results, content_type) ==
    IF content_type = "all" THEN results
    ELSE IF content_type = "reels"
         THEN SelectSeq(results, LAMBDA it : it.content_type = "reel")
         ELSE SelectSeq(results, LAMBDA it : it.content_type = "post")

\* What a DOM probe of the wall checks can do
ProbeResults == {"found", "absent", "throws"}

\* What the wall checks read from the loaded page
PageViews ==
    [url_login : BOOLEAN,            \* "login" in page.url.lower()
     login_form : ProbeResults,      \* query_selector(login_form)
     indicator : ProbeResults,       \* query_selector(logged_in_indicator)
     \* page.context.cookies(...): a sessionid cookie with a value, one with
     \* an empty value, none, or the call throws
     cookies : {"sessionid", "empty", "none", "throws"},
     url_challenge : BOOLEAN,        \* "challenge" or "checkpoint" in the url
     probes : [1 .. 4 -> ProbeResults]]   \* CHALLENGE_SELECTORS, in order

\* InstagramActions._is_login_required: TRUE, FALSE, or "raises" when a probe
\* outside a try throws
is_login_required(v) ==
    IF v.url_login THEN "TRUE"
    ELSE IF v.login_form = "throws" THEN "raises"
    ELSE IF v.login_form = "found" THEN "TRUE"
    ELSE IF v.indicator = "throws" THEN "raises"
    ELSE IF v.indicator = "found" THEN "FALSE"
    ELSE IF v.cookies = "sessionid" THEN "FALSE"
    ELSE "TRUE"

\* InstagramActions.check_for_challenge
check_for_challenge(v) ==
    \/ v.url_challenge
    \/ \E i \in 1 .. 4 :
          /\ v.probes[i] = "found"
          /\ \A j \in 1 .. i - 1 : v.probes[j] # "found"

\* lines 154-165 of search: the login check, then the challenge check
wall_of(v) ==
    IF is_login_required(v) = "raises" THEN "raises"
    ELSE IF is_login_required(v) = "TRUE" THEN "login"
    ELSE IF check_for_challenge(v) THEN "challenge"
    ELSE "clear"

WallOutcomes == {wall_of(v) : v \in PageViews}

\* no page has been classified
WallIdle ==
    /\ view = [url_login |-> FALSE, login_form |-> "absent",
               indicator |-> "found", cookies |-> "sessionid",
               url_challenge |-> FALSE, probes |-> [i \in 1 .. 4 |-> "absent"]]
    /\ login_required = "none"

\* What "rate" in str(e).lower() or "429" in str(e) reads of a message
Messages == [rate : BOOLEAN, c429 : BOOLEAN]
message_is_rate_limit(msg) == msg.rate \/ msg.c429

\* str(e) of the two wall errors: neither holds "rate" nor "429"
WallMessage == [rate |-> FALSE, c429 |-> FALSE]

NoResponse == [kind |-> "none"]

\* InstagramActions.__init__ and the locals of search and search_instagram
\* before any call
SearchIdle ==
    /\ keep_page_open \in BOOLEAN
    /\ active_page = "none"
    /\ open_pages = 0
    /\ s_pc = "idle"
    /\ s_args = [content_type |-> "all", limit |-> 0]
    /\ page = "none"
    /\ seen = <<>>
    /\ item = NoItem
    /\ current_count = 0
    /\ no_growth = 0
    /\ scroll_idx = 0
    /\ yielded = <<>>
    /\ s_end = "running"
    /\ wall = "none"
    /\ start_limiter = NewRateLimiter
    /\ t_pc = "idle"
    /\ t_content_type = "all"
    /\ t_limit = 0
    /\ t_attempt = 0
    /\ t_results = <<>>
    /\ response = NoResponse
    /\ calls = 0

\* Settings: instaloader_concurrency and analysis_concurrency, config.py:59-72
instaloader_concurrency_default == 3
analysis_concurrency_default == 3
DefaultSettings ==
    [instaloader_concurrency |-> instaloader_concurrency_default,
     analysis_concurrency |-> analysis_concurrency_default]

NoBatchResponse == [kind |-> "none"]

\* the tasks sharing the limiter
Callers == 1 .. MaxCallers

\* no method called yet
NotChecked == [method |-> "none", action_type |-> "none", state |-> "none"]

\* no task has called the limiter yet
CallersIdle ==
    /\ checked = NotChecked
    /\ w_pc = [k \in Callers |-> "idle"]
    /\ w_backoff = [k \in Callers |-> 0]
    /\ w_wake = [k \in Callers |-> 0]
    /\ w_seen = [k \in Callers |-> NewRateLimiter]

\* HumanizationConfig.min_session_actions and max_session_actions
min_session_actions == 5
max_session_actions == 20
\* scroll_to_load_more gives up at this many probes without a change
no_change_limit == 3

\* bounds of the HumanBehavior model
MaxItems == 2
MaxScrollArg == 5
MaxSimulated == 3

\* random.randint(min_session_actions, max_session_actions): its two ends
SessionDraws == {min_session_actions, max_session_actions}

\* HumanBehavior.__init__
NewHumanBehavior(fast_mode, limit) ==
    [fast_mode |-> fast_mode, action_count |-> 0, session_limit |-> limit]

\* does _check_session_limit take a break?
takes_break(H) ==
    /\ ~H.fast_mode
    /\ H.action_count + 1 >= H.session_limit

\* HumanBehavior._check_session_limit; limit is the randint of the break
check_session_limit(H, limit) ==
    IF H.fast_mode THEN H
    ELSE IF H.action_count + 1 >= H.session_limit
         THEN [H EXCEPT !.action_count = 0, !.session_limit = limit]
         ELSE [H EXCEPT !.action_count = H.action_count + 1]

\* a for loop that runs one iteration more than range(max_scrolls)
loop_done_one_late(iter, n) == iter > n

\* `for _ in range(max_scrolls)` has no iteration left
loop_done(iter, n) == iter >= n

\* the body of scroll_to_load_more's loop from the probe to the scroll:
\* whether it returns, and its locals
after_probe(target_count, current_count_, no_change_count, new_count) ==
    IF new_count >= target_count
    THEN [returns |-> TRUE, current_count |-> current_count_,
          no_change_count |-> no_change_count]
    ELSE IF new_count = current_count_
         THEN [returns |-> no_change_count + 1 >= no_change_limit,
               current_count |-> current_count_,
               no_change_count |-> no_change_count + 1]
         ELSE [returns |-> FALSE, current_count |-> new_count,
               no_change_count |-> 0]

NotReturned == -1

\* scroll_to_load_more not called
LoadMoreIdle ==
    /\ l_pc = "idle"
    /\ l_args = [target_count |-> 0, max_scrolls |-> 0]
    /\ l_iter = 0
    /\ l_current_count = 0
    /\ l_no_change = 0
    /\ l_new_count = 0
    /\ l_not_grown = 0
    /\ l_scrolls = 0
    /\ l_returned = NotReturned

\* a HumanBehavior just constructed, on some page
HumanIdle ==
    /\ humanizer = NewHumanBehavior(FALSE, min_session_actions)
    /\ simulated = 0
    /\ l_page_count = 0
    /\ LoadMoreIdle

\* no task is inside _check_session_limit
BreakIdle == h_pc = [k \in Callers |-> "idle"]

\* no tool call has reached the MCP server and no browser is started
McpIdle ==
    /\ m_pc = [k \in Callers |-> "idle"]
    /\ m_close = [k \in Callers |-> FALSE]
    /\ browser_lock = 0
    /\ started = FALSE
    /\ m_lost = {}

\* fetch_and_analyze_posts before any call
PipeIdle ==
    /\ b_pc = "idle"
    /\ tasks = <<>>
    /\ fetch_sem = 0
    /\ analyze_sem = 0
    /\ b_response = NoBatchResponse

----------------------------------------------------------------------------
(* The limiter driven by one caller: SpecRate *)

RateInit ==
    /\ now = 0
    /\ limiter = NewRateLimiter
    /\ fresh_run = TRUE
    /\ SearchIdle
    /\ keep_page_open = FALSE
    /\ PipeIdle
    /\ CallersIdle
    /\ HumanIdle
    /\ WallIdle
    /\ McpIdle
    /\ BreakIdle
    /\ settings = DefaultSettings

RecordAction(a) ==
    /\ get_counter(limiter, a, now).count < MaxCount
    /\ limiter' = record_action(limiter, a, now)
    /\ fresh_run' = FALSE
    /\ UNCHANGED now

RecordFailure(a, is_rate_limit, u, m) ==
    /\ limiter.consecutive_failures < MaxFailures
    /\ limiter' = record_failure(limiter, a, is_rate_limit, u, m, now)
    /\ UNCHANGED <<now, fresh_run>>

WaitIfNeeded(a, u) ==
    /\ now + wait_time(limiter, a, u, now) <= MaxHours * Hour
    /\ now' = now + wait_time(limiter, a, u, now)
    /\ limiter' = wait_if_needed(limiter, a, u, now)
    /\ UNCHANGED fresh_run

\* RateLimiter.reset
Reset ==
    /\ limiter' = NewRateLimiter
    /\ fresh_run' = TRUE
    /\ UNCHANGED now

Tick(d) ==
    /\ now + d <= MaxHours * Hour
    /\ now' = now + d
    /\ UNCHANGED <<limiter, fresh_run>>

\* The clock and the block deadline, with the jitter drawn at its middle
RateNext ==
    \/ \E a \in ActionTypes : RecordAction(a) /\ UNCHANGED <<search_vars, merge_vars, pipe_vars, caller_vars, check_vars, human_vars, wall_vars, mcp_vars, break_vars>>
    \/ \E a \in ActionTypes, r \in BOOLEAN, m \in BlockDraws :
          /\ limiter.consecutive_failures < MaxTimedFailures
          /\ RecordFailure(a, r, MidDraw, m)
          /\ UNCHANGED <<search_vars, merge_vars, pipe_vars, caller_vars, check_vars, human_vars, wall_vars, mcp_vars, break_vars>>
    \/ \E a \in ActionTypes : WaitIfNeeded(a, MidDraw) /\ UNCHANGED <<search_vars, merge_vars, pipe_vars, caller_vars, check_vars, human_vars, wall_vars, mcp_vars, break_vars>>
    \/ Reset /\ UNCHANGED <<search_vars, merge_vars, pipe_vars, caller_vars, check_vars, human_vars, wall_vars, mcp_vars, break_vars>>
    \/ \E d \in TickSteps : Tick(d) /\ UNCHANGED <<search_vars, merge_vars, pipe_vars, caller_vars, check_vars, human_vars, wall_vars, mcp_vars, break_vars>>

SpecRate == RateInit /\ [][RateNext]_vars

\* The jitter at both ends and its middle, with the clock stopped
BackoffNext ==
    \/ \E a \in ActionTypes : RecordAction(a) /\ UNCHANGED <<search_vars, merge_vars, pipe_vars, caller_vars, check_vars, human_vars, wall_vars, mcp_vars, break_vars>>
    \/ \E a \in ActionTypes, r \in BOOLEAN, u \in JitterDraws, m \in BlockDraws :
          RecordFailure(a, r, u, m) /\ UNCHANGED <<search_vars, merge_vars, pipe_vars, caller_vars, check_vars, human_vars, wall_vars, mcp_vars, break_vars>>
    \/ Reset /\ UNCHANGED <<search_vars, merge_vars, pipe_vars, caller_vars, check_vars, human_vars, wall_vars, mcp_vars, break_vars>>

SpecBackoff == RateInit /\ [][BackoffNext]_vars

----------------------------------------------------------------------------
(* Tasks that share one limiter, each running one search: SpecShared *)

\* the limiter after n searches recorded at time t
RECURSIVE after_searches(_, _)
after_searches(n, t) ==
    IF n = 0 THEN NewRateLimiter
    ELSE record_action(after_searches(n - 1, t), "search", t)

\* the largest count check_state still answers OK for
last_ok(a) == ((get_limit(a) * soft_limit_pct + 99) \div 100) - 1

\* the limiter after f more failures that were no rate limit, the jitter drawn
\* at its middle and the shortest cooldown
RECURSIVE after_failures(_, _, _)
after_failures(L, f, t) ==
    IF f = 0 THEN L
    ELSE record_failure(after_failures(L, f - 1, t), "search", FALSE, MidDraw,
                        block_cooldown_min_minutes, t)

\* counts around the two thresholds of check_state
SearchCounts ==
    {last_ok("search"), last_ok("search") + 1,
     max_searches_per_hour - 1, max_searches_per_hour}

\* one limiter that has recorded searches up to a threshold and then some
\* failures, and tasks about to search
SharedInit ==
    /\ now = 0
    /\ \E n \in SearchCounts, f \in 0 .. max_consecutive_failures :
          limiter = after_failures(after_searches(n, 0), f, 0)
    /\ fresh_run = FALSE
    /\ SearchIdle
    /\ keep_page_open = FALSE
    /\ PipeIdle
    /\ CallersIdle
    /\ HumanIdle
    /\ WallIdle
    /\ McpIdle
    /\ BreakIdle
    /\ settings = DefaultSettings

sleeping(k) == w_pc[k] \in {"blocked_sleep", "hard_sleep"}

\* wait_if_needed("search") of task k, lines 118-138, as far as its
\* asyncio.sleep, or as far as its return where it does not sleep
WaitBegin(k, u) ==
    /\ w_pc[k] = "idle"
    /\ CASE check_state(limiter, "search", now) = "BLOCKED" ->
              /\ w_pc' = [w_pc EXCEPT ![k] = "blocked_sleep"]
              /\ w_wake' = [w_wake EXCEPT ![k] = limiter.blocked_until]
              /\ w_seen' = [w_seen EXCEPT ![k] = limiter]
              /\ UNCHANGED <<limiter, w_backoff>>
         [] check_state(limiter, "search", now) = "HARD_LIMIT" ->
              /\ limiter' = after_check_state(limiter, "search", now)
              /\ w_backoff' = [w_backoff EXCEPT
                                  ![k] = calculate_backoff(limiter.current_backoff, u)]
              /\ w_wake' = [w_wake EXCEPT
                               ![k] = now + calculate_backoff(limiter.current_backoff, u)]
              /\ w_seen' = [w_seen EXCEPT ![k] = limiter']
              /\ w_pc' = [w_pc EXCEPT ![k] = "hard_sleep"]
         [] OTHER ->
              /\ limiter' = after_check_state(limiter, "search", now)
              /\ w_pc' = [w_pc EXCEPT ![k] = "acting"]
              /\ UNCHANGED <<w_backoff, w_wake, w_seen>>
    /\ UNCHANGED <<now, fresh_run>>

\* a wait_if_needed that forgets the failures along with the block
WaitEnd_resets_failures(k) ==
    /\ sleeping(k)
    /\ \A j \in Callers : sleeping(j) => w_wake[k] <= w_wake[j]
    /\ now' = Max(now, w_wake[k])
    /\ limiter' = IF w_pc[k] = "blocked_sleep"
                  THEN [limiter EXCEPT !.blocked_until = NoDeadline,
                                       !.consecutive_failures = 0]
                  ELSE [limiter EXCEPT !.current_backoff = w_backoff[k]]
    /\ w_pc' = [w_pc EXCEPT ![k] = "acting"]
    /\ w_backoff' = [w_backoff EXCEPT ![k] = 0]
    /\ w_wake' = [w_wake EXCEPT ![k] = 0]
    /\ w_seen' = [w_seen EXCEPT ![k] = NewRateLimiter]
    /\ UNCHANGED fresh_run

\* the asyncio.sleep of task k ends, the earliest sleeper first: line 128,
\* or lines 139-140
WaitEnd(k) ==
    /\ sleeping(k)
    /\ \A j \in Callers : sleeping(j) => w_wake[k] <= w_wake[j]
    /\ now' = Max(now, w_wake[k])
    /\ limiter' = IF w_pc[k] = "blocked_sleep"
                  THEN [limiter EXCEPT !.blocked_until = NoDeadline]
                  ELSE [limiter EXCEPT !.current_backoff = w_backoff[k]]
    /\ w_pc' = [w_pc EXCEPT ![k] = "acting"]
    /\ w_backoff' = [w_backoff EXCEPT ![k] = 0]
    /\ w_wake' = [w_wake EXCEPT ![k] = 0]
    /\ w_seen' = [w_seen EXCEPT ![k] = NewRateLimiter]
    /\ UNCHANGED fresh_run

\* the action of task k succeeded: record_action("search")
CallerRecordsAction(k) ==
    /\ w_pc[k] = "acting"
    /\ limiter' = record_action(limiter, "search", now)
    /\ fresh_run' = FALSE
    /\ w_pc' = [w_pc EXCEPT ![k] = "done"]
    /\ UNCHANGED <<now, w_backoff, w_wake, w_seen>>

\* the action of task k failed: record_failure("search", is_rate_limit)
CallerRecordsFailure(k, is_rate_limit, u, m) ==
    /\ w_pc[k] = "acting"
    /\ u \in jitter_draws(limiter, is_rate_limit)
    /\ m \in block_draws(limiter)
    /\ limiter' = record_failure(limiter, "search", is_rate_limit, u, m, now)
    /\ w_pc' = [w_pc EXCEPT ![k] = "done"]
    /\ UNCHANGED <<now, fresh_run, w_backoff, w_wake, w_seen>>

SharedNext ==
    \/ /\ \E k \in Callers, u \in JitterDraws :
             /\ check_state(limiter, "search", now) # "HARD_LIMIT" => u = MidDraw
             /\ WaitBegin(k, u)
       /\ UNCHANGED <<search_vars, merge_vars, pipe_vars, check_vars, human_vars, wall_vars, mcp_vars, break_vars>>
    \/ /\ \E k \in Callers : WaitEnd(k)
       /\ UNCHANGED <<search_vars, merge_vars, pipe_vars, check_vars, human_vars, wall_vars, mcp_vars, break_vars>>
    \/ /\ \E k \in Callers : CallerRecordsAction(k)
       /\ UNCHANGED <<search_vars, merge_vars, pipe_vars, check_vars, human_vars, wall_vars, mcp_vars, break_vars>>
    \/ /\ \E k \in Callers, r \in BOOLEAN, u \in JitterDraws, m \in BlockDraws :
             CallerRecordsFailure(k, r, u, m)
       /\ UNCHANGED <<search_vars, merge_vars, pipe_vars, check_vars, human_vars, wall_vars, mcp_vars, break_vars>>

SpecShared == SharedInit /\ [][SharedNext]_vars

----------------------------------------------------------------------------
(* One call of check_state or record_action on a limiter in use: SpecCheck *)

\* "search", "profile_view", "scroll", and a type _get_limit does not know
CheckTypes == {"search", "profile_view", "scroll", "like"}

\* a new limiter, with room for the keys of CheckTypes in _counters
NewCheckLimiter ==
    [NewRateLimiter EXCEPT !.counters = [a \in CheckTypes |-> NoCounter]]

\* the limiter after n calls of record_action(a) at time t: the first creates
\* the counter with its window starting at t, each adds 1
after_actions(a, n, t) ==
    IF n = 0 THEN NewCheckLimiter
    ELSE [NewCheckLimiter EXCEPT !.counters[a] = [count |-> n, window_start |-> t]]

\* a limiter that recorded actions of one type up to and beyond its cap and
\* then no failure, enough failures for a backoff, or enough for a block
CheckInit ==
    /\ now = 0
    /\ \E a \in CheckTypes, n \in 0 .. max_scroll_actions_per_hour + MaxCount,
          f \in {0, backoff_failures, max_consecutive_failures} :
          /\ n <= get_limit(a) + MaxCount
          /\ limiter = after_failures(after_actions(a, n, 0), f, 0)
    /\ fresh_run = FALSE
    /\ SearchIdle
    /\ keep_page_open = FALSE
    /\ PipeIdle
    /\ CallersIdle
    /\ HumanIdle
    /\ WallIdle
    /\ McpIdle
    /\ BreakIdle
    /\ settings = DefaultSettings

\* check_state(a): what it returns and what it leaves in _counters
CheckState(a) ==
    /\ checked = NotChecked
    /\ checked' = [method |-> "check_state", action_type |-> a,
                   state |-> check_state(limiter, a, now)]
    /\ limiter' = after_check_state(limiter, a, now)
    /\ UNCHANGED <<now, fresh_run>>

\* record_action(a)
CheckRecordAction(a) ==
    /\ checked = NotChecked
    /\ checked' = [method |-> "record_action", action_type |-> a, state |-> "none"]
    /\ limiter' = record_action(limiter, a, now)
    /\ UNCHANGED <<now, fresh_run>>

\* time passes before the call
CheckTick(d) ==
    /\ checked = NotChecked
    /\ Tick(d)
    /\ UNCHANGED checked

CheckNext ==
    \/ /\ \E a \in CheckTypes : CheckState(a)
       /\ UNCHANGED <<search_vars, merge_vars, pipe_vars, caller_vars, human_vars, wall_vars, mcp_vars, break_vars>>
    \/ /\ \E a \in CheckTypes : CheckRecordAction(a)
       /\ UNCHANGED <<search_vars, merge_vars, pipe_vars, caller_vars, human_vars, wall_vars, mcp_vars, break_vars>>
    \/ /\ \E d \in TickSteps : CheckTick(d)
       /\ UNCHANGED <<search_vars, merge_vars, pipe_vars, caller_vars, human_vars, wall_vars, mcp_vars, break_vars>>

SpecCheck == CheckInit /\ [][CheckNext]_vars

----------------------------------------------------------------------------
(* InstagramActions.search, step by step *)

\* How a search that reached `finally` with s_end in flight ends for its
\* caller: the return at line 313 ends the generator normally, whatever was in
\* flight
search_end == IF keep_page_open THEN "returned" ELSE s_end

\* a `finally` that returns at once in either mode
Finally_without_close(cls, close_ok) ==
    /\ s_pc' = "ended"
    /\ s_end' = cls
    /\ UNCHANGED <<page, open_pages>>

\* `finally` of search, lines 311-319, reached with `cls` in flight: the class
\* of the exception being raised, or "returned" on a normal end.
\* close_ok: page.close() finished within its 5 seconds; if not, the wait is
\* given up and the page stays open in its context.
Finally(cls, close_ok) ==
    /\ s_pc' = "ended"
    /\ s_end' = cls
    /\ IF keep_page_open
       THEN UNCHANGED <<page, open_pages>>
       ELSE /\ page' = IF close_ok \/ page = "closed"
                       THEN "closed" ELSE "close_timed_out"
            /\ open_pages' = IF close_ok /\ page = "open"
                             THEN open_pages - 1 ELSE open_pages

\* `except Exception` of search, lines 305-309, entered from limiter state L
\* with an exception of class cls and message msg; then `finally`
Except(L, cls, msg, u, m, close_ok) ==
    /\ u \in jitter_draws(L, message_is_rate_limit(msg))
    /\ m \in block_draws(L)
    /\ limiter' = record_failure(L, "search", message_is_rate_limit(msg), u, m, now)
    /\ Finally(cls, close_ok)

\* lines 126-143: wait_if_needed("search"), then the page to use
SearchStart(u) ==
    /\ s_pc = "start"
    /\ check_state(limiter, "search", now) # "HARD_LIMIT" => u = MidDraw
    /\ now + wait_time(limiter, "search", u, now) <= MaxHours * Hour
    /\ now' = now + wait_time(limiter, "search", u, now)
    /\ limiter' = wait_if_needed(limiter, "search", u, now)
    /\ start_limiter' = limiter'
    /\ IF keep_page_open /\ active_page = "open"
       THEN UNCHANGED <<active_page, open_pages>>
       ELSE /\ open_pages' = open_pages + 1
            /\ active_page' = IF keep_page_open THEN "open" ELSE active_page
    /\ page' = "open"
    /\ s_pc' = "goto"
    /\ seen' = <<>>
    /\ current_count' = 0
    /\ no_growth' = 0
    /\ scroll_idx' = 0
    /\ yielded' = <<>>
    /\ s_end' = "running"
    /\ wall' = "none"
    /\ UNCHANGED <<keep_page_open, s_args, fresh_run, tool_vars>>

\* line 152: page.goto
Navigate ==
    /\ s_pc = "goto"
    /\ s_pc' = "wall_check"
    /\ UNCHANGED <<now, limiter, fresh_run, keep_page_open, active_page,
                   open_pages, s_args, page, seen, current_count, no_growth,
                   scroll_idx, yielded, s_end, wall, start_limiter, tool_vars>>

\* lines 154-165: the wall checks and what they raise
WallCheck(w, msg, u1, m1, u2, m2, close_ok) ==
    /\ s_pc = "wall_check"
    /\ w \in {"login", "challenge"} =>
          u1 \in jitter_draws(limiter, FALSE) /\ m1 \in block_draws(limiter)
    /\ w \notin {"login", "challenge"} =>
          u1 = MidDraw /\ m1 = block_cooldown_min_minutes
    /\ w # "raises" => msg = WallMessage
    /\ CASE w = "login" ->
              /\ wall' = "login"
              /\ Except(record_failure(limiter, "search", FALSE, u1, m1, now),
                        "AuthenticationRequiredError", WallMessage, u2, m2, close_ok)
         [] w = "challenge" ->
              /\ wall' = "challenge"
              /\ Except(record_failure(limiter, "search", FALSE, u1, m1, now),
                        "ChallengeRequiredError", WallMessage, u2, m2, close_ok)
         [] w = "raises" ->
              /\ wall' = "none"
              /\ Except(limiter, "Exception", msg, u2, m2, close_ok)
         [] OTHER ->
              /\ wall' = "clear"
              /\ s_pc' = "wait_results"
              /\ UNCHANGED <<limiter, page, open_pages, s_end>>
    /\ UNCHANGED <<now, fresh_run, keep_page_open, active_page, s_args, seen,
                   current_count, no_growth, scroll_idx, yielded,
                   start_limiter, tool_vars>>

\* lines 167-182: wait for a result link; a timeout is an empty result
WaitForResults(attached, close_ok) ==
    /\ s_pc = "wait_results"
    /\ IF attached
       THEN /\ s_pc' = "collect"
            /\ UNCHANGED <<limiter, fresh_run, page, open_pages, s_end>>
       ELSE /\ limiter' = record_action(limiter, "search", now)
            /\ fresh_run' = FALSE
            /\ Finally("returned", close_ok)
    /\ UNCHANGED <<now, keep_page_open, active_page, s_args, seen,
                   current_count, no_growth, scroll_idx, yielded, wall,
                   start_limiter, tool_vars>>

\* lines 219-228: the first collect and merge, over every page the selector
\* can match
CollectInitial ==
    /\ s_pc = "collect"
    /\ \E merged \in {merge_items(collect_items(dom), <<>>) : dom \in SearchDoms} :
           /\ seen' = merged
           /\ current_count' = Len(merged)
           /\ s_pc' = IF s_args.limit > Len(merged) THEN "scroll" ELSE "extract"
    /\ UNCHANGED <<now, limiter, fresh_run, keep_page_open, active_page,
                   open_pages, s_args, page, no_growth, scroll_idx, yielded,
                   s_end, wall, start_limiter, tool_vars>>

\* the user, or the browser, closes the page search scrolls
PageCloses ==
    /\ s_pc = "scroll"
    /\ page = "open"
    /\ page' = "closed"
    /\ open_pages' = open_pages - 1
    /\ active_page' = IF keep_page_open THEN "closed" ELSE active_page
    /\ UNCHANGED <<now, limiter, fresh_run, keep_page_open, s_pc, s_args, seen,
                   current_count, no_growth, scroll_idx, yielded, s_end, wall,
                   start_limiter, tool_vars>>

\* lines 230-282: one iteration of the scroll loop, over every page the
\* selector can match after the scroll
ScrollIteration ==
    /\ s_pc = "scroll"
    /\ scroll_idx' = scroll_idx + 1
    /\ IF page = "closed"
       THEN /\ page' = "open"
            /\ open_pages' = open_pages + 1
            /\ active_page' = IF keep_page_open THEN "open" ELSE active_page
       ELSE UNCHANGED <<page, open_pages, active_page>>
    /\ \E merged \in {merge_items(collect_items(dom), seen) : dom \in SearchDoms} :
         LET new_count == Len(merged)
             grew == new_count > current_count
             stalls == IF grew THEN 0 ELSE no_growth + 1
             count == IF grew THEN new_count ELSE current_count
         IN  /\ seen' = merged
             /\ no_growth' = stalls
             /\ current_count' = count
             /\ s_pc' = IF \/ (~grew /\ stalls >= stall_limit)
                           \/ count >= s_args.limit
                           \/ scroll_idx + 1 >= max_scrolls(s_args.limit)
                        THEN "extract" ELSE "scroll"
    /\ UNCHANGED <<now, limiter, fresh_run, keep_page_open, s_args, yielded,
                   s_end, wall, start_limiter, tool_vars>>

\* lines 284-303: filter, truncate, record the success, yield every result
Extract(close_ok) ==
    /\ s_pc = "extract"
    /\ yielded' = take(filter_type(seen, s_args.content_type), s_args.limit)
    /\ limiter' = record_action(limiter, "search", now)
    /\ fresh_run' = FALSE
    /\ Finally("returned", close_ok)
    /\ UNCHANGED <<now, keep_page_open, active_page, s_args, seen,
                   current_count, no_growth, scroll_idx, wall, start_limiter,
                   tool_vars>>

\* an awaited page operation inside the try raises: page.goto (152),
\* random_delay (168), page.evaluate (185), human_scroll (241), the reopening
\* of a closed page (233-239)
PageOperationRaises(msg, u, m, close_ok) ==
    /\ s_pc \in {"goto", "wait_results", "collect", "scroll"}
    /\ Except(limiter, "Exception", msg, u, m, close_ok)
    /\ UNCHANGED <<now, fresh_run, keep_page_open, active_page, s_args, seen,
                   current_count, no_growth, scroll_idx, yielded, wall,
                   start_limiter, tool_vars>>

----------------------------------------------------------------------------
(* The wall checks of search on every page they can meet: SpecWall *)

\* a search that has opened its page and loaded the results url
WallInit ==
    /\ now = 0
    /\ limiter = wait_if_needed(NewRateLimiter, "search", MidDraw, 0)
    /\ start_limiter = limiter
    /\ fresh_run = TRUE
    /\ keep_page_open \in BOOLEAN
    /\ active_page = IF keep_page_open THEN "open" ELSE "none"
    /\ open_pages = 1
    /\ page = "open"
    /\ s_pc = "wall_check"
    /\ s_args = [content_type |-> "all", limit |-> 1]
    /\ seen = <<>>
    /\ item = NoItem
    /\ current_count = 0
    /\ no_growth = 0
    /\ scroll_idx = 0
    /\ yielded = <<>>
    /\ s_end = "running"
    /\ wall = "none"
    /\ t_pc = "searching"
    /\ t_content_type = s_args.content_type
    /\ t_limit = s_args.limit
    /\ t_attempt = 1
    /\ t_results = <<>>
    /\ response = NoResponse
    /\ calls = 1
    /\ PipeIdle
    /\ CallersIdle
    /\ HumanIdle
    /\ settings = DefaultSettings
    /\ view \in PageViews
    /\ login_required = "none"
    /\ McpIdle
    /\ BreakIdle

\* lines 154-165 on the page in view: _is_login_required, then
\* check_for_challenge, and what search does with the outcome
Classify(msg, u1, m1, u2, m2, close_ok) ==
    /\ WallCheck(wall_of(view), msg, u1, m1, u2, m2, close_ok)
    /\ login_required' = is_login_required(view)
    /\ view' = view

WallNext ==
    \/ /\ \E msg \in Messages, u1 \in JitterDraws, m1 \in BlockDraws,
             u2 \in JitterDraws, m2 \in BlockDraws, ok \in BOOLEAN :
             Classify(msg, u1, m1, u2, m2, ok)
       /\ UNCHANGED <<merge_vars, pipe_vars, caller_vars, check_vars, human_vars, mcp_vars, break_vars>>

SpecWall == WallInit /\ [][WallNext]_vars

----------------------------------------------------------------------------
(* search_instagram *)

\* the dict search_instagram appends for each SearchResult
to_result(it) == [shortcode |-> it.shortcode, type |-> it.content_type, url |-> it.url]

to_results(items) == [i \in 1 .. Len(items) |-> to_result(items[i])]

\* lines 64-80: the arguments, a new BrowserClient (its own RateLimiter and
\* InstagramActions, no search generator yet), the first search
ToolCall(content_type, limit) ==
    /\ t_pc = "idle"
    /\ calls' = calls + 1
    /\ t_pc' = "searching"
    /\ t_content_type' = content_type
    /\ t_limit' = limit
    /\ t_attempt' = 1
    /\ t_results' = <<>>
    /\ response' = NoResponse
    /\ limiter' = NewRateLimiter
    /\ fresh_run' = TRUE
    /\ active_page' = "none"
    /\ s_pc' = "start"
    /\ s_args' = [content_type |-> content_type, limit |-> limit]
    /\ page' = "none"
    /\ seen' = <<>>
    /\ current_count' = 0
    /\ no_growth' = 0
    /\ scroll_idx' = 0
    /\ yielded' = <<>>
    /\ s_end' = "running"
    /\ wall' = "none"
    /\ start_limiter' = NewRateLimiter
    /\ UNCHANGED <<now, keep_page_open, open_pages>>

\* "exhausted": len(results) < limit
exhausted(count, limit) == count < limit

\* lines 116-123
results_response(content_type, limit, results) ==
    [kind |-> "results",
     content_type |-> content_type,
     requested_limit |-> limit,
     count |-> Len(results),
     exhausted |-> exhausted(Len(results), limit),
     results |-> results]

\* lines 97-114
error_response(cls) ==
    IF cls = "AuthenticationRequiredError"
    THEN [kind |-> "error", error |-> "Not authenticated", auth_required |-> TRUE,
          challenge_required |-> FALSE]
    ELSE [kind |-> "error", error |-> "Challenge required", auth_required |-> FALSE,
          challenge_required |-> TRUE]

\* BrowserClient.__aexit__: a context the client created is closed with its pages
ClientExit ==
    /\ open_pages' = IF keep_page_open THEN open_pages ELSE 0
    /\ page' = IF keep_page_open THEN page ELSE "closed"

\* a search_instagram that falls back whatever content_type was asked for
SearchReturned_retry_any_type ==
    /\ t_pc = "searching"
    /\ s_pc = "ended"
    /\ search_end = "returned"
    /\ LET results == t_results \o to_results(yielded)
       IN  IF t_attempt = 1 /\ results = <<>>
           THEN /\ t_results' = results
                /\ t_content_type' = "all"
                /\ t_attempt' = 2
                /\ s_pc' = "start"
                /\ s_args' = [content_type |-> "all", limit |-> t_limit]
                /\ UNCHANGED <<t_pc, response, open_pages, page>>
           ELSE /\ t_results' = results
                /\ response' = results_response(t_content_type, t_limit, results)
                /\ t_pc' = "idle"
                /\ s_pc' = "idle"
                /\ ClientExit
                /\ UNCHANGED <<t_content_type, t_attempt, s_args>>
    /\ UNCHANGED <<now, limiter, fresh_run, keep_page_open, active_page, seen,
                   current_count, no_growth, scroll_idx, yielded, s_end, wall,
                   start_limiter, t_limit, calls>>

\* lines 80-96, once the search generator has ended without raising: the
\* results it yielded, then the fallback search or the response
SearchReturned ==
    /\ t_pc = "searching"
    /\ s_pc = "ended"
    /\ search_end = "returned"
    /\ LET results == t_results \o to_results(yielded)
       IN  IF t_attempt = 1 /\ results = <<>> /\ t_content_type # "all"
           THEN /\ t_results' = results
                /\ t_content_type' = "all"
                /\ t_attempt' = 2
                /\ s_pc' = "start"
                /\ s_args' = [content_type |-> "all", limit |-> t_limit]
                /\ UNCHANGED <<t_pc, response, open_pages, page>>
           ELSE /\ t_results' = results
                /\ response' = results_response(t_content_type, t_limit, results)
                /\ t_pc' = "idle"
                /\ s_pc' = "idle"
                /\ ClientExit
                /\ UNCHANGED <<t_content_type, t_attempt, s_args>>
    /\ UNCHANGED <<now, limiter, fresh_run, keep_page_open, active_page, seen,
                   current_count, no_growth, scroll_idx, yielded, s_end, wall,
                   start_limiter, t_limit, calls>>

\* lines 97-114: a wall error becomes a payload; any other exception leaves
\* search_instagram
SearchRaised ==
    /\ t_pc = "searching"
    /\ s_pc = "ended"
    /\ search_end # "returned"
    /\ response' = IF search_end = "Exception" THEN [kind |-> "raised"]
                   ELSE error_response(search_end)
    /\ t_pc' = "idle"
    /\ s_pc' = "idle"
    /\ ClientExit
    /\ UNCHANGED <<now, limiter, fresh_run, keep_page_open, active_page, s_args,
                   seen, current_count, no_growth, scroll_idx, yielded, s_end,
                   wall, start_limiter, t_content_type, t_limit, t_attempt,
                   t_results, calls>>

SearchInit ==
    /\ now = 0
    /\ limiter = NewRateLimiter
    /\ fresh_run = TRUE
    /\ SearchIdle
    /\ PipeIdle
    /\ CallersIdle
    /\ HumanIdle
    /\ WallIdle
    /\ McpIdle
    /\ BreakIdle
    /\ settings = DefaultSettings

SearchNext ==
    \/ /\ calls < MaxCalls
       /\ \E c \in ContentTypes, l \in Limits : ToolCall(c, l)
       /\ UNCHANGED <<merge_vars, pipe_vars, caller_vars, check_vars, human_vars, wall_vars, mcp_vars, break_vars>>
    \/ /\ \E u \in JitterDraws : SearchStart(u)
       /\ UNCHANGED <<merge_vars, pipe_vars, caller_vars, check_vars, human_vars, wall_vars, mcp_vars, break_vars>>
    \/ Navigate /\ UNCHANGED <<merge_vars, pipe_vars, caller_vars, check_vars, human_vars, wall_vars, mcp_vars, break_vars>>
    \/ /\ s_pc = "wall_check"
       /\ \E w \in WallOutcomes, msg \in Messages, u1, u2 \in JitterDraws,
             m1, m2 \in BlockDraws, ok \in BOOLEAN :
             WallCheck(w, msg, u1, m1, u2, m2, ok)
       /\ UNCHANGED <<merge_vars, pipe_vars, caller_vars, check_vars, human_vars, wall_vars, mcp_vars, break_vars>>
    \/ /\ \E attached, ok \in BOOLEAN : WaitForResults(attached, ok)
       /\ UNCHANGED <<merge_vars, pipe_vars, caller_vars, check_vars, human_vars, wall_vars, mcp_vars, break_vars>>
    \/ /\ CollectInitial
       /\ UNCHANGED <<merge_vars, pipe_vars, caller_vars, check_vars, human_vars, wall_vars, mcp_vars, break_vars>>
    \/ PageCloses /\ UNCHANGED <<merge_vars, pipe_vars, caller_vars, check_vars, human_vars, wall_vars, mcp_vars, break_vars>>
    \/ /\ ScrollIteration
       /\ UNCHANGED <<merge_vars, pipe_vars, caller_vars, check_vars, human_vars, wall_vars, mcp_vars, break_vars>>
    \/ /\ \E ok \in BOOLEAN : Extract(ok)
       /\ UNCHANGED <<merge_vars, pipe_vars, caller_vars, check_vars, human_vars, wall_vars, mcp_vars, break_vars>>
    \/ /\ s_pc \in {"goto", "wait_results", "collect", "scroll"}
       /\ \E msg \in Messages, u \in JitterDraws, m \in BlockDraws, ok \in BOOLEAN :
             PageOperationRaises(msg, u, m, ok)
       /\ UNCHANGED <<merge_vars, pipe_vars, caller_vars, check_vars, human_vars, wall_vars, mcp_vars, break_vars>>
    \/ SearchReturned /\ UNCHANGED <<merge_vars, pipe_vars, caller_vars, check_vars, human_vars, wall_vars, mcp_vars, break_vars>>
    \/ SearchRaised /\ UNCHANGED <<merge_vars, pipe_vars, caller_vars, check_vars, human_vars, wall_vars, mcp_vars, break_vars>>

SpecSearch == SearchInit /\ [][SearchNext]_vars

\* A session of one tool call more, each for at most one result of any type
SessionNext ==
    \/ /\ calls <= MaxCalls
       /\ \E l \in 0 .. Min(1, MaxLimit) : ToolCall("all", l)
       /\ UNCHANGED <<merge_vars, pipe_vars, caller_vars, check_vars, human_vars, wall_vars, mcp_vars, break_vars>>
    \/ /\ \E u \in JitterDraws : SearchStart(u)
       /\ UNCHANGED <<merge_vars, pipe_vars, caller_vars, check_vars, human_vars, wall_vars, mcp_vars, break_vars>>
    \/ Navigate /\ UNCHANGED <<merge_vars, pipe_vars, caller_vars, check_vars, human_vars, wall_vars, mcp_vars, break_vars>>
    \/ /\ s_pc = "wall_check"
       /\ \E w \in WallOutcomes, msg \in Messages, u1, u2 \in JitterDraws,
             m1, m2 \in BlockDraws, ok \in BOOLEAN :
             WallCheck(w, msg, u1, m1, u2, m2, ok)
       /\ UNCHANGED <<merge_vars, pipe_vars, caller_vars, check_vars, human_vars, wall_vars, mcp_vars, break_vars>>
    \/ /\ \E attached, ok \in BOOLEAN : WaitForResults(attached, ok)
       /\ UNCHANGED <<merge_vars, pipe_vars, caller_vars, check_vars, human_vars, wall_vars, mcp_vars, break_vars>>
    \/ /\ CollectInitial
       /\ UNCHANGED <<merge_vars, pipe_vars, caller_vars, check_vars, human_vars, wall_vars, mcp_vars, break_vars>>
    \/ PageCloses /\ UNCHANGED <<merge_vars, pipe_vars, caller_vars, check_vars, human_vars, wall_vars, mcp_vars, break_vars>>
    \/ /\ ScrollIteration
       /\ UNCHANGED <<merge_vars, pipe_vars, caller_vars, check_vars, human_vars, wall_vars, mcp_vars, break_vars>>
    \/ /\ \E ok \in BOOLEAN : Extract(ok)
       /\ UNCHANGED <<merge_vars, pipe_vars, caller_vars, check_vars, human_vars, wall_vars, mcp_vars, break_vars>>
    \/ /\ s_pc \in {"goto", "wait_results", "collect", "scroll"}
       /\ \E msg \in Messages, u \in JitterDraws, m \in BlockDraws, ok \in BOOLEAN :
             PageOperationRaises(msg, u, m, ok)
       /\ UNCHANGED <<merge_vars, pipe_vars, caller_vars, check_vars, human_vars, wall_vars, mcp_vars, break_vars>>
    \/ SearchReturned /\ UNCHANGED <<merge_vars, pipe_vars, caller_vars, check_vars, human_vars, wall_vars, mcp_vars, break_vars>>
    \/ SearchRaised /\ UNCHANGED <<merge_vars, pipe_vars, caller_vars, check_vars, human_vars, wall_vars, mcp_vars, break_vars>>

SpecSession == SearchInit /\ [][SessionNext]_vars

\* the generator running search is resumed: one iteration of the collect loop
ScrollStep ==
    /\ ScrollIteration
    /\ UNCHANGED <<merge_vars, pipe_vars, caller_vars, check_vars, human_vars, wall_vars, mcp_vars, break_vars>>

\* the same, for the extraction after the loop
ExtractStep ==
    /\ \E ok \in BOOLEAN : Extract(ok)
    /\ UNCHANGED <<merge_vars, pipe_vars, caller_vars, check_vars, human_vars, wall_vars, mcp_vars, break_vars>>

\* The caller iterates the generator to its end (`async for`), so a step of
\* search that stays possible is taken: weak fairness of both steps.  For
\* ScrollStep, ENABLED <<ScrollStep>>_vars is written out: an iteration is
\* possible exactly at "scroll", and it always raises scroll_idx.
LoopFairness ==
    /\ WF_vars(ExtractStep)
    /\ \/ []<>(s_pc # "scroll")
       \/ []<><<ScrollStep>>_vars

\* A first search of a tool call that found no wall and saw a result link
\* attach (line 182 passed), about to collect
ScrollInit ==
    /\ now = 0
    /\ limiter = wait_if_needed(NewRateLimiter, "search", MidDraw, 0)
    /\ start_limiter = limiter
    /\ fresh_run = TRUE
    /\ keep_page_open \in BOOLEAN
    /\ active_page = IF keep_page_open THEN "open" ELSE "none"
    /\ open_pages = 1
    /\ page = "open"
    /\ s_pc = "collect"
    /\ s_args \in [content_type : ContentTypes, limit : Limits]
    /\ seen = <<>>
    /\ item = NoItem
    /\ current_count = 0
    /\ no_growth = 0
    /\ scroll_idx = 0
    /\ yielded = <<>>
    /\ s_end = "running"
    /\ wall = "clear"
    /\ t_pc = "searching"
    /\ t_content_type = s_args.content_type
    /\ t_limit = s_args.limit
    /\ t_attempt = 1
    /\ t_results = <<>>
    /\ response = NoResponse
    /\ calls = 1
    /\ PipeIdle
    /\ CallersIdle
    /\ HumanIdle
    /\ WallIdle
    /\ McpIdle
    /\ BreakIdle
    /\ settings = DefaultSettings

\* the collect loop of search and its end
ScrollNext ==
    \/ /\ CollectInitial
       /\ UNCHANGED <<merge_vars, pipe_vars, caller_vars, check_vars, human_vars, wall_vars, mcp_vars, break_vars>>
    \/ PageCloses /\ UNCHANGED <<merge_vars, pipe_vars, caller_vars, check_vars, human_vars, wall_vars, mcp_vars, break_vars>>
    \/ /\ ScrollIteration
       /\ UNCHANGED <<merge_vars, pipe_vars, caller_vars, check_vars, human_vars, wall_vars, mcp_vars, break_vars>>
    \/ /\ \E ok \in BOOLEAN : Extract(ok)
       /\ UNCHANGED <<merge_vars, pipe_vars, caller_vars, check_vars, human_vars, wall_vars, mcp_vars, break_vars>>
    \/ /\ s_pc \in {"collect", "scroll"}
       /\ \E msg \in Messages, u \in JitterDraws, m \in BlockDraws, ok \in BOOLEAN :
             PageOperationRaises(msg, u, m, ok)
       /\ UNCHANGED <<merge_vars, pipe_vars, caller_vars, check_vars, human_vars, wall_vars, mcp_vars, break_vars>>

\* the collect loop with a generator that keeps being resumed
SpecScroll == ScrollInit /\ [][ScrollNext]_vars /\ LoopFairness

----------------------------------------------------------------------------
(* _merge_items, one iteration of its loop at a time: SpecMerge *)

\* lines 207-216: the iteration for the item the page script made of anchor a
MergeItem(a) ==
    /\ item' = to_item(a)
    /\ seen' = merge_one(to_item(a), seen)
    /\ UNCHANGED <<keep_page_open, active_page, open_pages, s_pc, s_args, page,
                   current_count, no_growth, scroll_idx, yielded, s_end, wall,
                   start_limiter, tool_vars>>

MergeInit ==
    /\ now = 0
    /\ limiter = NewRateLimiter
    /\ fresh_run = TRUE
    /\ SearchIdle
    /\ keep_page_open = FALSE
    /\ PipeIdle
    /\ CallersIdle
    /\ HumanIdle
    /\ WallIdle
    /\ McpIdle
    /\ BreakIdle
    /\ settings = DefaultSettings

MergeNext ==
    \/ /\ \E a \in Links(Shortcodes \cup {NoCode}, Thumbs) : MergeItem(a)
       /\ UNCHANGED <<rate_vars, pipe_vars, caller_vars, check_vars, human_vars, wall_vars, mcp_vars, break_vars>>

SpecMerge == MergeInit /\ [][MergeNext]_vars

----------------------------------------------------------------------------
(* fetch_and_analyze_posts: the two-stage pipeline *)

\* what _fetch_single does for one shortcode: a post with a video_url, a post
\* without one, the error tuple of its two except clauses, or an exception of
\* get_instaloader_instance, which it calls before its try
FetchOutcomes == {"video", "plain", "error", "loader_raises"}

\* a semaphore of one permit more than the setting
permits_plus_one(concurrency) == concurrency + 1

\* lines 202-203: asyncio.Semaphore(max(1, concurrency))
permits(concurrency) == Max(1, concurrency)

\* the coroutine _process(code, http_client) before its first step
NewTask == [pc |-> "wait_fetch", post |-> "none", error |-> FALSE, analysis |-> "none"]

\* lines 167-203 and 259-260: the two early returns, else the semaphores and
\* one task per shortcode
FetchAndAnalyzePosts(n, authenticated, has_key) ==
    /\ b_pc = "idle"
    /\ IF ~authenticated
       THEN /\ b_response' = [kind |-> "error", error |-> "Not authenticated"]
            /\ b_pc' = "returned"
            /\ UNCHANGED <<tasks, fetch_sem, analyze_sem>>
       ELSE IF ~has_key
       THEN /\ b_response' = [kind |-> "error", error |-> "Gemini API key not configured"]
            /\ b_pc' = "returned"
            /\ UNCHANGED <<tasks, fetch_sem, analyze_sem>>
       ELSE /\ fetch_sem' = permits(settings.instaloader_concurrency)
            /\ analyze_sem' = permits(settings.analysis_concurrency)
            /\ tasks' = [i \in 1 .. n |-> NewTask]
            /\ b_pc' = "gather"
            /\ UNCHANGED b_response
    /\ UNCHANGED settings

\* line 236: async with fetch_sem, entered
AcquireFetchSem(i) ==
    /\ tasks[i].pc = "wait_fetch"
    /\ fetch_sem > 0
    /\ fetch_sem' = fetch_sem - 1
    /\ tasks' = [tasks EXCEPT ![i].pc = "fetching"]
    /\ UNCHANGED <<settings, b_pc, analyze_sem, b_response>>

\* lines 237-240: _fetch_single in its thread ends, fetch_sem is released, and
\* the task goes on to the analysis only with a video_url
FetchSingle(i, outcome) ==
    /\ tasks[i].pc = "fetching"
    /\ fetch_sem' = fetch_sem + 1
    /\ tasks' = [tasks EXCEPT ![i] =
          CASE outcome = "video" ->
                  [@ EXCEPT !.pc = "wait_analyze", !.post = "video"]
            [] outcome = "plain" ->
                  [@ EXCEPT !.pc = "done", !.post = "plain"]
            [] outcome = "error" ->
                  [@ EXCEPT !.pc = "done", !.error = TRUE]
            [] OTHER -> [@ EXCEPT !.pc = "raised"]]
    /\ UNCHANGED <<settings, b_pc, analyze_sem, b_response>>

\* an analysis stage that starts only when no fetch is left to do
AcquireAnalyzeSem_after_fetches(i) ==
    /\ tasks[i].pc = "wait_analyze"
    /\ \A j \in 1 .. Len(tasks) : tasks[j].pc \notin {"wait_fetch", "fetching"}
    /\ analyze_sem > 0
    /\ analyze_sem' = analyze_sem - 1
    /\ tasks' = [tasks EXCEPT ![i].pc = "analyzing"]
    /\ UNCHANGED <<settings, b_pc, fetch_sem, b_response>>

\* line 241: async with analyze_sem, entered
AcquireAnalyzeSem(i) ==
    /\ tasks[i].pc = "wait_analyze"
    /\ analyze_sem > 0
    /\ analyze_sem' = analyze_sem - 1
    /\ tasks' = [tasks EXCEPT ![i].pc = "analyzing"]
    /\ UNCHANGED <<settings, b_pc, fetch_sem, b_response>>

\* how _analyze_single_video ends: it returns its dict, or its download or
\* its inference raises an exception e, with str(e) empty or not
AnalysisOutcomes == {"returned", "raised", "raised_empty"}

\* lines 242-253: what `analysis` is bound to: the returned dict, which has no
\* "error" key, or {"error": str(e)} with a message or with ""
analysis_of(outcome) ==
    CASE outcome = "returned" -> "ok"
      [] outcome = "raised" -> "error"
      [] OTHER -> "empty_error"

\* a.get("analysis", {}).get("error") is truthy: the key is there and its
\* string is not empty
error_truthy(analysis) == analysis = "error"

\* lines 242-253: _analyze_single_video returns an analysis, or raises and the
\* except clause stores {"error": str(e)}
AnalyzeSingleVideo(i, outcome) ==
    /\ tasks[i].pc = "analyzing"
    /\ analyze_sem' = analyze_sem + 1
    /\ tasks' = [tasks EXCEPT ![i].pc = "done",
                              ![i].analysis = analysis_of(outcome)]
    /\ UNCHANGED <<settings, b_pc, fetch_sem, b_response>>

\* lines 263-292: the response built from the gathered results, each list
\* holding the positions of its shortcodes in the batch
batch_response(results) ==
    LET order == [i \in 1 .. Len(results) |-> i]
        posts == SelectSeq(order, LAMBDA i : results[i].post # "none")
        errors == SelectSeq(order, LAMBDA i : results[i].error)
        analyses == SelectSeq(posts, LAMBDA i : results[i].analysis # "none")
    IN  [kind |-> "batch",
         fetched |-> Len(posts),
         errors |-> Len(errors),
         posts |-> posts,
         analyses |-> analyses,
         analyzed |->
             Len(SelectSeq(analyses, LAMBDA i : ~error_truthy(results[i].analysis))),
         analysis_failed |->
             Len(SelectSeq(analyses, LAMBDA i : error_truthy(results[i].analysis))),
         error_details |-> errors]

\* line 261: a task raised, and gather raises its exception out of
\* fetch_and_analyze_posts; the other tasks are not cancelled
GatherRaises ==
    /\ b_pc = "gather"
    /\ \E i \in 1 .. Len(tasks) : tasks[i].pc = "raised"
    /\ b_pc' = "raised"
    /\ b_response' = [kind |-> "raised"]
    /\ UNCHANGED <<settings, tasks, fetch_sem, analyze_sem>>

\* lines 261-301: every task returned, and the response is built
GatherReturns ==
    /\ b_pc = "gather"
    /\ \A i \in 1 .. Len(tasks) : tasks[i].pc = "done"
    /\ b_pc' = "returned"
    /\ b_response' = batch_response(tasks)
    /\ UNCHANGED <<settings, tasks, fetch_sem, analyze_sem>>

PipeInit ==
    /\ now = 0
    /\ limiter = NewRateLimiter
    /\ fresh_run = TRUE
    /\ SearchIdle
    /\ keep_page_open = FALSE
    /\ PipeIdle
    /\ CallersIdle
    /\ HumanIdle
    /\ WallIdle
    /\ McpIdle
    /\ BreakIdle
    /\ settings \in [instaloader_concurrency : 0 .. MaxConcurrency,
                     analysis_concurrency : 0 .. MaxConcurrency]

PipeNext ==
    \/ /\ \E n \in 0 .. MaxBatch, authenticated, has_key \in BOOLEAN :
             FetchAndAnalyzePosts(n, authenticated, has_key)
       /\ UNCHANGED <<rate_vars, search_vars, merge_vars, caller_vars, check_vars, human_vars, wall_vars, mcp_vars, break_vars>>
    \/ /\ \E i \in 1 .. Len(tasks) : AcquireFetchSem(i)
       /\ UNCHANGED <<rate_vars, search_vars, merge_vars, caller_vars, check_vars, human_vars, wall_vars, mcp_vars, break_vars>>
    \/ /\ \E i \in 1 .. Len(tasks), outcome \in FetchOutcomes : FetchSingle(i, outcome)
       /\ UNCHANGED <<rate_vars, search_vars, merge_vars, caller_vars, check_vars, human_vars, wall_vars, mcp_vars, break_vars>>
    \/ /\ \E i \in 1 .. Len(tasks) : AcquireAnalyzeSem(i)
       /\ UNCHANGED <<rate_vars, search_vars, merge_vars, caller_vars, check_vars, human_vars, wall_vars, mcp_vars, break_vars>>
    \/ /\ \E i \in 1 .. Len(tasks), outcome \in AnalysisOutcomes :
             AnalyzeSingleVideo(i, outcome)
       /\ UNCHANGED <<rate_vars, search_vars, merge_vars, caller_vars, check_vars, human_vars, wall_vars, mcp_vars, break_vars>>
    \/ GatherRaises /\ UNCHANGED <<rate_vars, search_vars, merge_vars, caller_vars, check_vars, human_vars, wall_vars, mcp_vars, break_vars>>
    \/ GatherReturns /\ UNCHANGED <<rate_vars, search_vars, merge_vars, caller_vars, check_vars, human_vars, wall_vars, mcp_vars, break_vars>>

SpecPipe == PipeInit /\ [][PipeNext]_vars

\* a step of a task that can take one, or of gather: every acquire that has a
\* permit free is granted, and every _fetch_single and _analyze_single_video
\* that began ends
PipeProgress ==
    \/ /\ \E i \in 1 .. Len(tasks) : AcquireFetchSem(i)
       /\ UNCHANGED <<rate_vars, search_vars, merge_vars, caller_vars, check_vars, human_vars, wall_vars, mcp_vars, break_vars>>
    \/ /\ \E i \in 1 .. Len(tasks), outcome \in FetchOutcomes : FetchSingle(i, outcome)
       /\ UNCHANGED <<rate_vars, search_vars, merge_vars, caller_vars, check_vars, human_vars, wall_vars, mcp_vars, break_vars>>
    \/ /\ \E i \in 1 .. Len(tasks) : AcquireAnalyzeSem(i)
       /\ UNCHANGED <<rate_vars, search_vars, merge_vars, caller_vars, check_vars, human_vars, wall_vars, mcp_vars, break_vars>>
    \/ /\ \E i \in 1 .. Len(tasks), outcome \in AnalysisOutcomes :
             AnalyzeSingleVideo(i, outcome)
       /\ UNCHANGED <<rate_vars, search_vars, merge_vars, caller_vars, check_vars, human_vars, wall_vars, mcp_vars, break_vars>>
    \/ GatherRaises /\ UNCHANGED <<rate_vars, search_vars, merge_vars, caller_vars, check_vars, human_vars, wall_vars, mcp_vars, break_vars>>
    \/ GatherReturns /\ UNCHANGED <<rate_vars, search_vars, merge_vars, caller_vars, check_vars, human_vars, wall_vars, mcp_vars, break_vars>>

\* the event loop runs what is ready to run
PipeFairness == WF_vars(PipeProgress)

SpecPipeFair == PipeInit /\ [][PipeNext]_vars /\ PipeFairness

----------------------------------------------------------------------------
(* HumanBehavior and its scroll_to_load_more: SpecLoadMore *)

\* HumanBehavior.random_delay: it sleeps and returns
RandomDelay ==
    /\ l_pc = "idle"
    /\ simulated < MaxSimulated
    /\ simulated' = simulated + 1
    /\ UNCHANGED <<humanizer, l_pc, l_args, l_page_count, l_iter,
                   l_current_count, l_no_change, l_new_count, l_not_grown,
                   l_scrolls, l_returned>>

\* HumanBehavior.human_scroll called on its own; the page then shows c items
HumanScroll(c) ==
    /\ l_pc = "idle"
    /\ simulated < MaxSimulated
    /\ simulated' = simulated + 1
    /\ l_page_count' = c
    /\ UNCHANGED <<humanizer, l_pc, l_args, l_iter, l_current_count,
                   l_no_change, l_new_count, l_not_grown, l_scrolls,
                   l_returned>>

\* HumanBehavior.human_type: a click, a random_delay, the keystrokes
HumanType ==
    /\ l_pc = "idle"
    /\ simulated < MaxSimulated - 1
    /\ simulated' = simulated + 2
    /\ UNCHANGED <<humanizer, l_pc, l_args, l_page_count, l_iter,
                   l_current_count, l_no_change, l_new_count, l_not_grown,
                   l_scrolls, l_returned>>

\* one scroll of InstagramActions.search as the humanizer sees it:
\* human_scroll(page), then random_delay(0.7, 1.2)
SearchScroll(c) ==
    /\ l_pc = "idle"
    /\ simulated < MaxSimulated - 1
    /\ simulated' = simulated + 2
    /\ l_page_count' = c
    /\ UNCHANGED <<humanizer, l_pc, l_args, l_iter, l_current_count,
                   l_no_change, l_new_count, l_not_grown, l_scrolls,
                   l_returned>>

\* scroll_to_load_more(page, target_count, count_selector, max_scrolls) up
\* to the head of its loop
ScrollToLoadMore(target_count, n) ==
    /\ l_pc = "idle"
    /\ l_args' = [target_count |-> target_count, max_scrolls |-> n]
    /\ l_current_count' = 0
    /\ l_no_change' = 0
    /\ l_iter' = 0
    /\ IF loop_done(0, n)
       THEN l_pc' = "returned" /\ l_returned' = 0
       ELSE l_pc' = "probe" /\ l_returned' = NotReturned
    /\ UNCHANGED <<humanizer, simulated, l_page_count, l_new_count,
                   l_not_grown, l_scrolls>>

\* the probe of one iteration and what it decides
Probe ==
    /\ l_pc = "probe"
    /\ LET new_count == l_page_count
           r == after_probe(l_args.target_count, l_current_count,
                            l_no_change, new_count)
       IN  /\ l_iter' = l_iter + 1
           /\ l_new_count' = new_count
           /\ l_not_grown' = IF l_iter > 0 /\ new_count <= l_new_count
                             THEN l_not_grown + 1
                             ELSE 0
           /\ l_current_count' = r.current_count
           /\ l_no_change' = r.no_change_count
           /\ IF r.returns
              THEN l_pc' = "returned" /\ l_returned' = new_count
              ELSE l_pc' = "scroll" /\ l_returned' = NotReturned
    /\ UNCHANGED <<humanizer, simulated, l_args, l_page_count, l_scrolls>>

\* the rest of the iteration: human_scroll, after which the page shows c
\* items, _check_session_limit, and the head of the loop
LoopScroll(c, limit) ==
    /\ l_pc = "scroll"
    /\ l_page_count' = c
    /\ l_scrolls' = l_scrolls + 1
    /\ humanizer' = check_session_limit(humanizer, limit)
    /\ simulated' = IF takes_break(humanizer) THEN 0 ELSE simulated + 1
    /\ IF loop_done(l_iter, l_args.max_scrolls)
       THEN l_pc' = "returned" /\ l_returned' = l_current_count
       ELSE l_pc' = "probe" /\ l_returned' = NotReturned
    /\ UNCHANGED <<l_args, l_iter, l_current_count, l_no_change, l_new_count,
                   l_not_grown>>

\* the two steps of an iteration with the rest of the program at rest
ProbeStep ==
    /\ Probe
    /\ UNCHANGED <<rate_vars, search_vars, merge_vars, pipe_vars, caller_vars, check_vars, wall_vars, mcp_vars, break_vars>>

LoopScrollStep ==
    /\ \E c \in 0 .. MaxItems, limit \in SessionDraws : LoopScroll(c, limit)
    /\ UNCHANGED <<rate_vars, search_vars, merge_vars, pipe_vars, caller_vars, check_vars, wall_vars, mcp_vars, break_vars>>

\* a HumanBehavior in or out of fast mode, fresh or one action short of a
\* break, on a page with some items
HumanInit ==
    /\ now = 0
    /\ limiter = NewRateLimiter
    /\ fresh_run = TRUE
    /\ SearchIdle
    /\ keep_page_open = FALSE
    /\ PipeIdle
    /\ CallersIdle
    /\ settings = DefaultSettings
    /\ \E f \in BOOLEAN, s \in SessionDraws :
          \E a \in {0, s - 1} :
             humanizer = [NewHumanBehavior(f, s) EXCEPT !.action_count = a]
    /\ simulated = 0
    /\ l_page_count \in 0 .. MaxItems
    /\ LoadMoreIdle
    /\ WallIdle
    /\ McpIdle
    /\ BreakIdle

HumanNext ==
    \/ RandomDelay
       /\ UNCHANGED <<rate_vars, search_vars, merge_vars, pipe_vars, caller_vars, check_vars, wall_vars, mcp_vars, break_vars>>
    \/ \E c \in 0 .. MaxItems : HumanScroll(c)
       /\ UNCHANGED <<rate_vars, search_vars, merge_vars, pipe_vars, caller_vars, check_vars, wall_vars, mcp_vars, break_vars>>
    \/ HumanType
       /\ UNCHANGED <<rate_vars, search_vars, merge_vars, pipe_vars, caller_vars, check_vars, wall_vars, mcp_vars, break_vars>>
    \/ \E c \in 0 .. MaxItems : SearchScroll(c)
       /\ UNCHANGED <<rate_vars, search_vars, merge_vars, pipe_vars, caller_vars, check_vars, wall_vars, mcp_vars, break_vars>>
    \/ \E t \in 0 .. MaxItems + 1, n \in 0 .. MaxScrollArg : ScrollToLoadMore(t, n)
       /\ UNCHANGED <<rate_vars, search_vars, merge_vars, pipe_vars, caller_vars, check_vars, wall_vars, mcp_vars, break_vars>>
    \/ ProbeStep
    \/ LoopScrollStep

\* an awaited probe or scroll completes
LoadMoreFairness ==
    /\ WF_vars(ProbeStep)
    /\ WF_vars(LoopScrollStep)

SpecLoadMore == HumanInit /\ [][HumanNext]_vars /\ LoadMoreFairness

----------------------------------------------------------------------------
(* Tasks sharing one HumanBehavior in _check_session_limit: SpecBreak *)

\* _check_session_limit up to its await, lines 186-197: the fast mode return;
\* the increment; the test, after which the task is suspended in the break or
\* returns
CheckSessionLimitBegin(k) ==
    /\ h_pc[k] = "idle"
    /\ IF humanizer.fast_mode
       THEN UNCHANGED <<humanizer, h_pc>>
       ELSE /\ humanizer' = [humanizer EXCEPT !.action_count = humanizer.action_count + 1]
            /\ h_pc' = [h_pc EXCEPT ![k] = IF humanizer.action_count + 1 >= humanizer.session_limit
                                           THEN "break" ELSE "idle"]
    /\ UNCHANGED <<simulated, l_page_count, l_pc, l_args, l_iter, l_current_count,
                   l_no_change, l_new_count, l_not_grown, l_scrolls, l_returned>>

\* _check_session_limit after the sleep, lines 199-204; limit is the randint
CheckSessionLimitEnd(k, limit) ==
    /\ h_pc[k] = "break"
    /\ humanizer' = [humanizer EXCEPT !.action_count = 0, !.session_limit = limit]
    /\ h_pc' = [h_pc EXCEPT ![k] = "idle"]
    /\ UNCHANGED <<simulated, l_page_count, l_pc, l_args, l_iter, l_current_count,
                   l_no_change, l_new_count, l_not_grown, l_scrolls, l_returned>>

BreakInit ==
    /\ now = 0
    /\ limiter = NewRateLimiter
    /\ fresh_run = TRUE
    /\ SearchIdle
    /\ keep_page_open = TRUE
    /\ PipeIdle
    /\ CallersIdle
    /\ WallIdle
    /\ McpIdle
    /\ settings = DefaultSettings
    /\ \E f \in BOOLEAN, s \in min_session_actions..max_session_actions :
           humanizer = NewHumanBehavior(f, s)
    /\ simulated = 0
    /\ l_page_count = 0
    /\ LoadMoreIdle
    /\ BreakIdle

BreakNext ==
    \/ /\ \E k \in Callers : CheckSessionLimitBegin(k)
       /\ UNCHANGED <<rate_vars, search_vars, merge_vars, pipe_vars, caller_vars, check_vars, wall_vars, mcp_vars>>
    \/ /\ \E k \in Callers, limit \in SessionDraws : CheckSessionLimitEnd(k, limit)
       /\ UNCHANGED <<rate_vars, search_vars, merge_vars, pipe_vars, caller_vars, check_vars, wall_vars, mcp_vars>>

SpecBreak == BreakInit /\ [][BreakNext]_vars

----------------------------------------------------------------------------
(* The search_instagram tool of the MCP server, called concurrently: SpecMcp *)

\* how search_instagram ends for the tool: a payload with results, a payload
\* that asks for a login or a challenge to be resolved, or an exception
ToolOutcomes == {"results", "user_action", "raises"}

\* mcp_search_instagram is called, lines 226-235
McpSearchInstagram(k, close_browser) ==
    /\ m_pc[k] = "idle"
    /\ m_pc' = [m_pc EXCEPT ![k] = "ensure_browser"]
    /\ m_close' = [m_close EXCEPT ![k] = close_browser]
    /\ UNCHANGED <<browser_lock, started, m_lost>>

\* _ensure_browser, line 146: async with app_ctx.browser_lock, entered
AcquireBrowserLock(k) ==
    /\ m_pc[k] = "ensure_browser"
    /\ browser_lock = 0
    /\ browser_lock' = k
    /\ m_pc' = [m_pc EXCEPT ![k] = "ensure_ready"]
    /\ UNCHANGED <<m_close, started, m_lost>>

\* _ensure_browser, lines 147-153: ensure_ready(check_login=False) starts the
\* browser if it is not started, or raises out of the tool; the lock is
\* released either way, and the search begins outside it
EnsureReady(k, start_ok) ==
    /\ m_pc[k] = "ensure_ready"
    /\ browser_lock' = 0
    /\ IF started \/ start_ok
       THEN /\ started' = TRUE
            /\ m_pc' = [m_pc EXCEPT ![k] = "searching"]
       ELSE /\ started' = started
            /\ m_pc' = [m_pc EXCEPT ![k] = "raised"]
    /\ UNCHANGED <<m_close, m_lost>>

\* lines 240-257: search_instagram ends, then _maybe_close_browser, which
\* closes the session's browser context unless close_browser is false or the
\* payload asks for the user
SearchInstagramEnds(k, outcome) ==
    /\ m_pc[k] = "searching"
    /\ IF outcome = "raises"
       THEN /\ m_pc' = [m_pc EXCEPT ![k] = "raised"]
            /\ UNCHANGED <<started, m_lost>>
       ELSE /\ m_pc' = [m_pc EXCEPT ![k] = "returned"]
            /\ IF m_close[k] /\ outcome = "results"
               THEN /\ started' = FALSE
                    /\ m_lost' = IF started
                                 THEN m_lost \cup {j \in Callers \ {k} :
                                                     m_pc[j] = "searching"}
                                 ELSE m_lost
               ELSE UNCHANGED <<started, m_lost>>
    /\ UNCHANGED <<m_close, browser_lock>>

\* a server whose browser is closed, or was left open by an earlier call
McpInit ==
    /\ now = 0
    /\ limiter = NewRateLimiter
    /\ fresh_run = TRUE
    /\ SearchIdle
    /\ keep_page_open = TRUE
    /\ PipeIdle
    /\ CallersIdle
    /\ HumanIdle
    /\ WallIdle
    /\ settings = DefaultSettings
    /\ m_pc = [k \in Callers |-> "idle"]
    /\ m_close = [k \in Callers |-> FALSE]
    /\ browser_lock = 0
    /\ started \in BOOLEAN
    /\ m_lost = {}
    /\ BreakIdle

McpNext ==
    \/ /\ \E k \in Callers, close_browser \in BOOLEAN : McpSearchInstagram(k, close_browser)
       /\ UNCHANGED <<rate_vars, search_vars, merge_vars, pipe_vars, caller_vars, check_vars, human_vars, wall_vars, break_vars>>
    \/ /\ \E k \in Callers : AcquireBrowserLock(k)
       /\ UNCHANGED <<rate_vars, search_vars, merge_vars, pipe_vars, caller_vars, check_vars, human_vars, wall_vars, break_vars>>
    \/ /\ \E k \in Callers, start_ok \in BOOLEAN : EnsureReady(k, start_ok)
       /\ UNCHANGED <<rate_vars, search_vars, merge_vars, pipe_vars, caller_vars, check_vars, human_vars, wall_vars, break_vars>>
    \/ /\ \E k \in Callers, outcome \in ToolOutcomes : SearchInstagramEnds(k, outcome)
       /\ UNCHANGED <<rate_vars, search_vars, merge_vars, pipe_vars, caller_vars, check_vars, human_vars, wall_vars, break_vars>>

SpecMcp == McpInit /\ [][McpNext]_vars

----------------------------------------------------------------------------
(* Claims about the RateLimiter *)

\* A step that is a call record_failure(type, is_rate_limit=True)
RateLimitFailureStep ==
    \E a \in ActionTypes, u \in JitterDraws, m \in BlockDraws :
        RecordFailure(a, TRUE, u, m)

\* A step that is a call record_action(type)
RecordActionStep == \E a \in ActionTypes : RecordAction(a)

\* C4 as stated: after every record_failure(type, is_rate_limit=True),
\* current_backoff lies in [epsilon, max_backoff_seconds] and is not below its
\* value before the call; a record_action resets it to 0.
C4_BackoffWithinMaxAndMonotone ==
    [][/\ RateLimitFailureStep =>
            /\ limiter'.current_backoff >= min_backoff_ms
            /\ limiter'.current_backoff <= max_backoff_seconds * Ms
            /\ limiter'.current_backoff >= limiter.current_backoff
       /\ RecordActionStep => limiter'.current_backoff = 0]_rate_vars

\* C4 amended: after every record_failure(type, is_rate_limit=True),
\* current_backoff lies in [epsilon, max_backoff_seconds * (1 + jitter_factor)]
\* and is not below the smaller of its value before the call and
\* max_backoff_seconds * (1 - jitter_factor); a record_action resets it to 0.
C4_BackoffWithinJitteredMax ==
    [][/\ RateLimitFailureStep =>
            /\ limiter'.current_backoff >= min_backoff_ms
            /\ limiter'.current_backoff * 100
                   <= max_backoff_seconds * Ms * (100 + jitter_factor_pct)
            /\ limiter'.current_backoff >=
                   Min(limiter.current_backoff,
                       (max_backoff_seconds * Ms * (100 - jitter_factor_pct)) \div 100)
       /\ RecordActionStep => limiter'.current_backoff = 0]_rate_vars

\* C4 witness: failures have driven the backoff past max_backoff_seconds
C4_Witness ==
    /\ limiter.consecutive_failures >= 2
    /\ limiter.current_backoff > max_backoff_seconds * Ms

\* C5: from a fresh or reset limiter, the record_failure that makes
\* consecutive_failures equal max_consecutive_failures leaves check_state at
\* BLOCKED for every action type with blocked_until within
\* [now + block_cooldown_min, now + block_cooldown_max]; with fewer consecutive
\* failures check_state is not BLOCKED.
C5_BlockedAfterMaxFailures ==
    [][/\ (fresh_run /\ limiter'.consecutive_failures = max_consecutive_failures
             /\ \E a \in ActionTypes, r \in BOOLEAN, m \in BlockDraws :
                    RecordFailure(a, r, MidDraw, m))
          => /\ \A a \in ActionTypes : check_state(limiter', a, now') = "BLOCKED"
             /\ limiter'.blocked_until >= now' + block_cooldown_min_minutes * Minute
             /\ limiter'.blocked_until <= now' + block_cooldown_max_minutes * Minute
       /\ (fresh_run' /\ limiter'.consecutive_failures < max_consecutive_failures)
          => \A a \in ActionTypes : check_state(limiter', a, now') # "BLOCKED"
      ]_rate_vars

\* C5 witness: the fifth consecutive failure of a fresh limiter, recorded after
\* the clock has moved, has blocked it
C5_Witness ==
    /\ fresh_run
    /\ now > 0
    /\ limiter.consecutive_failures = max_consecutive_failures
    /\ limiter.blocked_until >= now + block_cooldown_min_minutes * Minute
    /\ check_state(limiter, "search", now) = "BLOCKED"

\* C15 as stated: whenever the sleep of a wait_if_needed ends, the field of
\* the limiter it is about to write (current_backoff after a HARD_LIMIT
\* sleep, blocked_until after a BLOCKED sleep) still holds what it held when
\* the method suspended: no record_action or record_failure of another task
\* changed it in between, so the write loses no update.
C15_NoLostUpdate ==
    [][\A k \in Callers : WaitEnd(k) =>
          IF w_pc[k] = "hard_sleep"
          THEN limiter.current_backoff = w_seen[k].current_backoff
          ELSE limiter.blocked_until = w_seen[k].blocked_until]_vars

\* C36: the BLOCKED branch of wait_if_needed, resuming from its sleep, does
\* not clear a block whose deadline is still ahead: if check_state answers
\* BLOCKED just before the write, it answers BLOCKED just after it.
C36_PendingBlockSurvivesWait ==
    [][\A k \in Callers :
          (WaitEnd(k) /\ w_pc[k] = "blocked_sleep"
             /\ check_state(limiter, "search", now') = "BLOCKED")
          => check_state(limiter', "search", now') = "BLOCKED"]_vars

\* C37: a wait_if_needed that has waited out a block clears blocked_until and
\* keeps consecutive_failures; a record_failure that follows, no record_action
\* between, counts one more failure and leaves check_state at BLOCKED for every
\* action type, with a deadline drawn anew from the cooldown range.
C37_BlockConsumedFailuresKept ==
    [][/\ \A k \in Callers :
             (WaitEnd(k) /\ w_pc[k] = "blocked_sleep") =>
                 /\ limiter'.blocked_until = NoDeadline
                 /\ limiter'.consecutive_failures = limiter.consecutive_failures
       /\ \A k \in Callers, r \in BOOLEAN, u \in JitterDraws, m \in BlockDraws :
             (CallerRecordsFailure(k, r, u, m)
                /\ limiter.blocked_until = NoDeadline
                /\ limiter.consecutive_failures >= max_consecutive_failures) =>
                 /\ limiter'.consecutive_failures = limiter.consecutive_failures + 1
                 /\ limiter'.blocked_until = now' + m * Minute
                 /\ \A a \in ActionTypes : check_state(limiter', a, now') = "BLOCKED"]_vars

\* C37 witness: a task that waited out the block has failed once more and the
\* limiter is blocked again, past the first deadline
C37_Witness ==
    /\ \E k \in Callers : w_pc[k] = "done"
    /\ limiter.consecutive_failures = max_consecutive_failures + 1
    /\ now >= block_cooldown_min_minutes * Minute
    /\ limiter.blocked_until >= now + block_cooldown_min_minutes * Minute
    /\ check_state(limiter, "search", now) = "BLOCKED"

\* C38: the failure count, the backoff and the block belong to the limiter,
\* not to an action type: a record_failure under any type adds 1 to the one
\* count and leaves the limiter as the same call under any other type would;
\* a record_action of any type sets the count and the backoff to 0; and
\* check_state answers BLOCKED for one type exactly when it does for every type.
C38_FailuresAndBlockAreGlobal ==
    [][/\ \A a \in ActionTypes, r \in BOOLEAN, u \in JitterDraws, m \in BlockDraws :
             RecordFailure(a, r, u, m) =>
                 /\ limiter'.consecutive_failures = limiter.consecutive_failures + 1
                 /\ \A b \in ActionTypes :
                       limiter' = record_failure(limiter, b, r, u, m, now)
       /\ \A a \in ActionTypes :
             RecordAction(a) =>
                 /\ limiter'.consecutive_failures = 0
                 /\ limiter'.current_backoff = 0
       /\ \A a, b \in ActionTypes :
             check_state(limiter', a, now') = "BLOCKED"
                 <=> check_state(limiter', b, now') = "BLOCKED"]_vars

\* C38 witness: failures have blocked the limiter also for "like", a type it
\* holds no counter for, while "search" has a recorded action
C38_Witness ==
    /\ limiter.consecutive_failures >= max_consecutive_failures
    /\ limiter.counters["like"] = NoCounter
    /\ limiter.counters["search"] # NoCounter
    /\ check_state(limiter, "like", now) = "BLOCKED"
    /\ check_state(limiter, "search", now) = "BLOCKED"

\* C17 as stated: with wait_if_needed("search") before every search, the
\* "search" actions recorded in the current window never number more than
\* max_searches_per_hour.
C17_SearchesWithinHourlyCap ==
    maybe_reset_window(get_counter(limiter, "search", now), now).count
        <= max_searches_per_hour

\* C18: a wait_if_needed called while a block deadline lies ahead suspends
\* until that deadline and leaves the limiter alone meanwhile; when its sleep
\* ends it sets blocked_until to none, changes nothing else and returns,
\* whatever the counter holds.  Called with no block ahead and the count
\* below the cap (OK or SOFT_LIMIT) it returns at once, the clock, blocked_until,
\* current_backoff and consecutive_failures as they were.
C18_WaitIfNeededBlockedOrFree ==
    [][\A k \in Callers :
          /\ (w_pc[k] = "idle" /\ w_pc'[k] # "idle") =>
                /\ (limiter.blocked_until # NoDeadline /\ now < limiter.blocked_until) =>
                      /\ w_pc'[k] = "blocked_sleep"
                      /\ w_wake'[k] = limiter.blocked_until
                      /\ limiter' = limiter
                      /\ now' = now
                /\ (/\ ~(limiter.blocked_until # NoDeadline /\ now < limiter.blocked_until)
                    /\ maybe_reset_window(get_counter(limiter, "search", now), now).count
                          < max_searches_per_hour) =>
                      /\ w_pc'[k] = "acting"
                      /\ now' = now
                      /\ limiter'.blocked_until = limiter.blocked_until
                      /\ limiter'.current_backoff = limiter.current_backoff
                      /\ limiter'.consecutive_failures = limiter.consecutive_failures
          /\ (w_pc[k] = "blocked_sleep" /\ w_pc'[k] # "blocked_sleep") =>
                /\ now' = Max(now, w_wake[k])
                /\ limiter' = [limiter EXCEPT !.blocked_until = NoDeadline]
                /\ w_pc'[k] = "acting"]_vars

\* C18 witness: a task is through wait_if_needed after a block of 5 failures
\* ran out, the block cleared, although the counter stands at the cap
C18_Witness ==
    \E k \in Callers :
        /\ w_pc[k] = "acting"
        /\ limiter.blocked_until = NoDeadline
        /\ limiter.consecutive_failures >= max_consecutive_failures
        /\ now >= block_cooldown_min_minutes * Minute
        /\ limiter.counters["search"].count >= max_searches_per_hour

\* C19: check_state answers BLOCKED whenever blocked_until is set and ahead
\* of the clock, whatever the counters hold; otherwise, with c the count of
\* the type in its current window (0 when it has no counter or the window ran
\* out) and L its cap (20 for search, 50 for profile_view, 100 for scroll, 50
\* for any other type), OK iff c < 0.8 L, SOFT_LIMIT iff 0.8 L <= c < L and
\* HARD_LIMIT iff c >= L.
C19_CheckStateByBlockAndShare ==
    [][\A a \in CheckTypes : CheckState(a) =>
          LET old == limiter.counters[a]
              c == IF old = NoCounter \/ now - old.window_start > Hour
                   THEN 0 ELSE old.count
              L == CASE a = "search" -> 20
                     [] a = "profile_view" -> 50
                     [] a = "scroll" -> 100
                     [] OTHER -> 50
              got == checked'.state
          IN  IF limiter.blocked_until # NoDeadline /\ now < limiter.blocked_until
              THEN got = "BLOCKED"
              ELSE /\ got \in {"OK", "SOFT_LIMIT", "HARD_LIMIT"}
                   /\ got = "OK" <=> 10 * c < 8 * L
                   /\ got = "SOFT_LIMIT" <=> (8 * L <= 10 * c /\ c < L)
                   /\ got = "HARD_LIMIT" <=> c >= L]_vars

\* C19 witness: check_state of a type without a cap of its own answered
\* SOFT_LIMIT at 40 of 50, on a limiter whose block deadline has passed
C19_Witness ==
    /\ checked.method = "check_state"
    /\ checked.action_type = "like"
    /\ checked.state = "SOFT_LIMIT"
    /\ limiter.counters["like"].count * 100 = default_limit * soft_limit_pct
    /\ limiter.blocked_until # NoDeadline
    /\ now >= limiter.blocked_until

\* C20: record_action(a) leaves the counter of a one above its count in the
\* current window (0 when the counter is new or its window has run out, the
\* window then starting now), consecutive_failures and current_backoff 0,
\* and blocked_until and the counter of every other type as they were.
C20_RecordActionFrame ==
    [][\A a \in CheckTypes : CheckRecordAction(a) =>
          LET old == limiter.counters[a]
              expired == old = NoCounter \/ now - old.window_start > window_hours * Hour
          IN  /\ limiter'.counters[a] =
                    [count |-> (IF expired THEN 0 ELSE old.count) + 1,
                     window_start |-> IF expired THEN now ELSE old.window_start]
              /\ limiter'.consecutive_failures = 0
              /\ limiter'.current_backoff = 0
              /\ limiter'.blocked_until = limiter.blocked_until
              /\ \A b \in CheckTypes \ {a} :
                    limiter'.counters[b] = limiter.counters[b]]_vars

\* C20 witness: record_action("search") on a limiter that had 5 failures, a
\* backoff and a block deadline and whose "scroll" counter stood at its cap in
\* a running window: the failures and the backoff are gone, the deadline and
\* the "scroll" counter stay
C20_Witness ==
    /\ checked.method = "record_action"
    /\ checked.action_type = "search"
    /\ limiter.counters["search"] = [count |-> 1, window_start |-> now]
    /\ limiter.consecutive_failures = 0
    /\ limiter.current_backoff = 0
    /\ limiter.blocked_until # NoDeadline
    /\ limiter.counters["scroll"].count = max_scroll_actions_per_hour
    /\ now - limiter.counters["scroll"].window_start <= window_hours * Hour
    /\ now > 0

\* C21 as stated: record_failure(type, is_rate_limit) raises
\* consecutive_failures by exactly 1, changes no action counter, does not
\* suspend (the clock stands), and the value of current_backoff changes if
\* and only if is_rate_limit is true or the raised consecutive_failures has
\* reached 3.
C21_FailureChangesBackoffIff ==
    [][\A a \in ActionTypes, r \in BOOLEAN, u \in JitterDraws, m \in BlockDraws :
          RecordFailure(a, r, u, m) =>
              /\ limiter'.consecutive_failures = limiter.consecutive_failures + 1
              /\ limiter'.counters = limiter.counters
              /\ now' = now
              /\ limiter'.current_backoff # limiter.current_backoff
                    <=> (r \/ limiter'.consecutive_failures >= 3)]_vars

\* C21 amended: record_failure(type, is_rate_limit) raises
\* consecutive_failures by exactly 1, changes no action counter and does not
\* suspend; if is_rate_limit is true or the raised consecutive_failures has
\* reached 3 it assigns current_backoff the value _calculate_backoff computes
\* from the old one, which differs from the old one whenever that was below
\* max_backoff_seconds * (1 - jitter_factor); otherwise it leaves
\* current_backoff as it was.
C21_FailureRecomputesBackoffIff ==
    [][\A a \in ActionTypes, r \in BOOLEAN, u \in JitterDraws, m \in BlockDraws :
          RecordFailure(a, r, u, m) =>
              /\ limiter'.consecutive_failures = limiter.consecutive_failures + 1
              /\ limiter'.counters = limiter.counters
              /\ now' = now
              /\ IF r \/ limiter'.consecutive_failures >= 3
                 THEN /\ limiter'.current_backoff =
                            calculate_backoff(limiter.current_backoff, u)
                      /\ limiter.current_backoff * 100
                            < max_backoff_seconds * Ms * (100 - jitter_factor_pct)
                         => limiter'.current_backoff # limiter.current_backoff
                 ELSE limiter'.current_backoff = limiter.current_backoff]_vars

\* C21 witness: failures recorded up to the bound, the backoff recomputed at
\* its cap with the largest jitter
C21_Witness ==
    /\ limiter.consecutive_failures = MaxFailures
    /\ limiter.current_backoff * 100
          = max_backoff_seconds * Ms * (100 + jitter_factor_pct)

\* C33: a read (check_state past the block check) or an increment
\* (record_action) of an existing counter made more than window_duration after
\* its window_start first sets count to 0 and window_start to now, and leaves
\* count and window_start alone otherwise; so after the reset check_state
\* answers OK, also for a type that stood at its cap. A check_state that
\* returns BLOCKED does not touch the counter.
C33_WindowResetsDiscretely ==
    [][\A a \in CheckTypes :
          ((CheckState(a) \/ CheckRecordAction(a)) /\ limiter.counters[a] # NoCounter) =>
              LET old == limiter.counters[a]
                  new == limiter'.counters[a]
                  read == checked'.method = "check_state"
                  expired == now - old.window_start > window_hours * Hour
              IN  IF read /\ checked'.state = "BLOCKED"
                  THEN new = old
                  ELSE /\ new.window_start = IF expired THEN now ELSE old.window_start
                       /\ new.count = (IF expired THEN 0 ELSE old.count)
                                         + (IF read THEN 0 ELSE 1)
                       /\ (read /\ expired) => checked'.state = "OK"]_vars

\* C33 witness: a check_state made 61 minutes or more after the only counter's
\* window began found the block over, restarted the window now and answered OK
C33_Witness ==
    /\ checked.method = "check_state"
    /\ checked.state = "OK"
    /\ now > window_hours * Hour
    /\ limiter.blocked_until # NoDeadline
    /\ limiter.counters[checked.action_type] = [count |-> 0, window_start |-> now]
    /\ \A b \in CheckTypes \ {checked.action_type} : limiter.counters[b] = NoCounter

----------------------------------------------------------------------------
(* Claims about InstagramActions.search and search_instagram *)

\* C1 as stated: for either setting of keep_page_open, a search whose page was
\* classified as a login wall ends by raising AuthenticationRequiredError to
\* its caller, and one whose page was classified as a challenge wall by
\* raising ChallengeRequiredError; neither ends as a normal, empty return.
C1_WallRaisesToCaller ==
    s_pc = "ended" =>
        /\ wall = "login" => search_end = "AuthenticationRequiredError"
        /\ wall = "challenge" => search_end = "ChallengeRequiredError"

\* C2 as stated: whenever the page of the search was a login wall the payload
\* of search_instagram is the error "Not authenticated" with auth_required,
\* whenever it was a challenge wall the error "Challenge required" with
\* challenge_required, with a persistent session as without; never a result
\* payload of count 0.
C2_WallBecomesErrorPayload ==
    (t_pc = "idle" /\ response.kind # "none") =>
        /\ wall = "login" =>
              /\ response.kind = "error"
              /\ response.error = "Not authenticated"
              /\ response.auth_required
        /\ wall = "challenge" =>
              /\ response.kind = "error"
              /\ response.error = "Challenge required"
              /\ response.challenge_required

\* C3 as stated: a search that met a login wall or a challenge wall leaves
\* consecutive_failures exactly one above its value when the search started,
\* and current_backoff as it was unless that one increment reaches the
\* threshold of the recomputation.
C3_WallRecordsOneFailure ==
    (s_pc = "ended" /\ wall \in {"login", "challenge"}) =>
        /\ limiter.consecutive_failures = start_limiter.consecutive_failures + 1
        /\ start_limiter.consecutive_failures + 1 < backoff_failures
              => limiter.current_backoff = start_limiter.current_backoff

\* The shortcodes of a dedup map are pairwise different
unique_shortcodes(map) ==
    \A i, j \in 1 .. Len(map) : map[i].shortcode = map[j].shortcode => i = j

\* C9: after every merge the dedup map holds at most one entry per shortcode;
\* merging an item whose shortcode is present keeps the entry where it was
\* with its url and content_type, keeps a non-empty thumbnail_url, and changes
\* a missing thumbnail_url only to the non-empty one of the incoming item; an
\* item with a new shortcode is stored as it came.
C9_MergeKeepsFirstEntry ==
    [][\A a \in Links(Shortcodes \cup {NoCode}, Thumbs) : MergeItem(a) =>
          /\ unique_shortcodes(seen')
          /\ Len(seen') >= Len(seen)
          /\ \A i \in 1 .. Len(seen) :
                /\ seen'[i].shortcode = seen[i].shortcode
                /\ seen'[i].url = seen[i].url
                /\ seen'[i].content_type = seen[i].content_type
                /\ ~falsy(seen[i].thumbnail_url)
                      => seen'[i].thumbnail_url = seen[i].thumbnail_url
                /\ seen'[i].thumbnail_url # seen[i].thumbnail_url
                      => /\ seen[i].shortcode = a.code
                         /\ seen'[i].thumbnail_url = a.img
                         /\ ~falsy(a.img)
                /\ (seen[i].shortcode = a.code /\ falsy(seen[i].thumbnail_url)
                       /\ ~falsy(a.img))
                      => seen'[i].thumbnail_url = a.img
          /\ index_of(seen, a.code) # 0 => Len(seen') = Len(seen)
          /\ (a.code # NoCode /\ index_of(seen, a.code) = 0)
                => seen' = Append(seen, to_item(a))
      ]_vars

\* C9 witness: the last item merged duplicated an entry under another url and
\* content_type; the entry kept its own, and holds the item's thumbnail_url
C9_Witness ==
    /\ Len(seen) = 2
    /\ item.shortcode = seen[1].shortcode
    /\ item.url # seen[1].url
    /\ item.content_type # seen[1].content_type
    /\ ~falsy(item.thumbnail_url)
    /\ seen[1].thumbnail_url = item.thumbnail_url
    /\ falsy(seen[2].thumbnail_url)

\* C10: if a search for "all" found n unique items at first, 1 <= n < limit,
\* and no scroll iteration added a shortcode (no_growth counted every
\* iteration), it made exactly 3 scroll iterations and yielded exactly those n
\* items, and search_instagram reports count = n and exhausted = true.
C10_StallStopsAfterThree ==
    (/\ t_pc = "idle"
     /\ response.kind = "results"
     /\ s_args.content_type = "all"
     /\ wall = "clear"
     /\ s_end = "returned"
     /\ 1 <= current_count
     /\ current_count < s_args.limit
     /\ no_growth = scroll_idx)
    => /\ scroll_idx = stall_limit
       /\ yielded = seen
       /\ Len(yielded) = current_count
       /\ response.count = current_count
       /\ response.exhausted

\* C10 witness: two items at first, limit 3, three stalled iterations, and the
\* response reports 2 results, exhausted
C10_Witness ==
    /\ t_pc = "idle"
    /\ response.kind = "results"
    /\ s_args = [content_type |-> "all", limit |-> 3]
    /\ wall = "clear"
    /\ s_end = "returned"
    /\ current_count = 2
    /\ no_growth = 3
    /\ scroll_idx = 3
    /\ response.count = 2
    /\ response.exhausted

\* C11: whatever the results page does, the collect loop runs on only while
\* fewer than min(40, max(5, ceil(limit/10) + 6)) iterations are done, fewer
\* than 3 consecutive iterations brought nothing new and the unique count is
\* below limit; it never exceeds that number of iterations; and a search in
\* its loop ends.
C11_ScrollLoopBounded ==
    /\ [](s_pc = "scroll" =>
            /\ scroll_idx < Min(40, Max(5, ceil_tenth(s_args.limit) + 6))
            /\ no_growth < 3
            /\ current_count < s_args.limit)
    /\ [](scroll_idx <= Min(40, Max(5, ceil_tenth(s_args.limit) + 6)))
    /\ ((s_pc = "scroll") ~> (s_pc = "ended"))

\* C11 witness: a search that used its whole scroll budget, with growth often
\* enough never to stall three times in a row, and ended
C11_Witness ==
    /\ s_pc = "ended"
    /\ s_end = "returned"
    /\ scroll_idx = Min(40, Max(5, ceil_tenth(s_args.limit) + 6))
    /\ no_growth < 3
    /\ current_count < s_args.limit

\* C12: the sequence a search that ended without raising has yielded is no
\* longer than limit, holds no shortcode twice, holds only items of the
\* requested type ("reel" for "reels", "post" for any value but "all" and
\* "reels"), and each of its items is an entry of the dedup map.
C12_YieldedWithinLimitUniqueTyped ==
    (s_pc = "ended" /\ s_end = "returned") =>
        /\ Len(yielded) <= s_args.limit
        /\ \A i, j \in 1 .. Len(yielded) :
              yielded[i].shortcode = yielded[j].shortcode => i = j
        /\ s_args.content_type = "reels" =>
              \A i \in 1 .. Len(yielded) : yielded[i].content_type = "reel"
        /\ s_args.content_type \notin {"all", "reels"} =>
              \A i \in 1 .. Len(yielded) : yielded[i].content_type = "post"
        /\ \A i \in 1 .. Len(yielded) : \E j \in 1 .. Len(seen) : seen[j] = yielded[i]

\* C12 witness: a search for reels that collected more reels than limit and
\* yielded exactly limit of them
C12_Witness ==
    /\ s_pc = "ended"
    /\ s_end = "returned"
    /\ s_args.content_type = "reels"
    /\ s_args.limit >= 1
    /\ Len(seen) > s_args.limit
    /\ \A j \in 1 .. Len(seen) : seen[j].content_type = "reel"
    /\ Len(yielded) = s_args.limit

RaisesStep(msg) ==
    \/ \E u \in JitterDraws, m \in BlockDraws, ok \in BOOLEAN :
          PageOperationRaises(msg, u, m, ok)
    \/ \E u \in JitterDraws, m \in BlockDraws, ok \in BOOLEAN :
          WallCheck("raises", msg, MidDraw, block_cooldown_min_minutes, u, m, ok)

\* C14 as stated: a step of search that raises an exception which is no wall
\* records one failure (consecutive_failures one higher), as a rate limit
\* (current_backoff recomputed although the failures are fewer than 3) exactly
\* when the message holds "rate" or "429", and the exception reaches the
\* caller of search, with a persistent session as without.
C14_ExceptionRecordedAndReraised ==
    [][\A msg \in Messages : RaisesStep(msg) =>
          /\ limiter'.consecutive_failures = limiter.consecutive_failures + 1
          /\ limiter'.consecutive_failures < backoff_failures =>
                (limiter'.current_backoff # limiter.current_backoff
                    <=> message_is_rate_limit(msg))
          /\ search_end' = "Exception"]_vars

\* C16 as stated: the RateLimiter lives as long as the session, so a
\* search_instagram call starts from the limiter the calls before it on the
\* session left: entering the call changes neither the counters nor
\* consecutive_failures, current_backoff or blocked_until.
C16_LimiterOutlivesToolCall ==
    [][(t_pc = "idle" /\ t_pc' = "searching") => limiter' = limiter]_vars

\* C26: once the page in view is classified, _is_login_required has reported
\* a login wall if and only if the url holds the login marker, or the login
\* form is present, or neither a logged-in indicator is found nor a
\* sessionid cookie with a non-empty value is read; cookies that cannot be
\* read count as no cookie.
C26_LoginWallIffMarkerFormOrNoSession ==
    s_pc # "wall_check" =>
        (login_required = "TRUE"
           <=> \/ view.url_login
               \/ view.login_form = "found"
               \/ view.indicator # "found" /\ view.cookies # "sessionid")

\* the page in view with every throwing DOM probe read as a non-match
quiet(v) ==
    [v EXCEPT !.login_form = IF @ = "throws" THEN "absent" ELSE @,
              !.indicator = IF @ = "throws" THEN "absent" ELSE @,
              !.probes = [i \in 1 .. 4 |-> IF @[i] = "throws" THEN "absent" ELSE @[i]]]

\* C27: the wall checks treat a DOM probe that throws (login form, logged-in
\* indicator, challenge selector) as a non-match: once the page in view is
\* classified the outcome is the one of the same page with those probes
\* absent, _is_login_required has returned a verdict, and on a page clear of
\* walls search goes on with no failure recorded.
C27_ThrowingProbeIsNonMatch ==
    s_pc # "wall_check" =>
        /\ login_required \in {"TRUE", "FALSE"}
        /\ wall = wall_of(quiet(view))
        /\ wall = "clear" => s_pc = "wait_results" /\ limiter = start_limiter

\* C28: in non-persistent mode, when search has ended (by its results, an
\* empty result, a wall, any other exception, after reopening a page that
\* closed during the scroll) the page it used is closed or its close was
\* attempted and given up after the bounded wait, and the only pages still
\* open in the context are such given-up pages: this search's, and that of
\* the first search when this is the fallback search of the tool call.
C28_PagesClosedWhenSearchEnds ==
    (~keep_page_open /\ s_pc = "ended") =>
        /\ page \in {"closed", "close_timed_out"}
        /\ open_pages <= (IF page = "close_timed_out" THEN 1 ELSE 0)
                            + (IF t_attempt = 2 THEN 1 ELSE 0)
        /\ t_attempt = 1 => open_pages = IF page = "close_timed_out" THEN 1 ELSE 0

\* C28 witness: a non-persistent search that scrolled has ended with
\* results and its page closed
C28_Witness ==
    /\ ~keep_page_open
    /\ s_pc = "ended"
    /\ s_end = "returned"
    /\ page = "closed"
    /\ open_pages = 0
    /\ scroll_idx > 0
    /\ Len(yielded) > 0

\* C29: in persistent-session mode, over any sequence of search_instagram
\* calls on one session, the pages opened by search and still open are never
\* more than one.
C29_OnePersistentPage ==
    keep_page_open => open_pages <= 1

\* C31: search_instagram runs a second search only after a first search for
\* "reels" or "posts" that ended without yielding an item, the second search
\* asks for "all", and no third search follows; a response with results is
\* built after the first search only if that search asked for "all" or
\* yielded an item, after the second search it reports content_type "all";
\* either way it holds what the last search yielded.
C31_FallbackOnceToAll ==
    [][/\ t_attempt' <= 2
       /\ (t_attempt = 1 /\ t_attempt' = 2) =>
             /\ s_args.content_type \in {"reels", "posts"}
             /\ yielded = <<>>
             /\ s_args'.content_type = "all"
             /\ s_pc' = "start"
       /\ (t_pc = "searching" /\ t_pc' = "idle" /\ response'.kind = "results") =>
             /\ t_attempt = 1 => s_args.content_type = "all" \/ yielded # <<>>
             /\ response'.content_type =
                   IF t_attempt = 1 THEN s_args.content_type ELSE "all"
             /\ response'.results = to_results(yielded)]_vars

\* C31 witness: a search for "reels" or "posts" yielded nothing and the
\* response holds the results of the second search, reported as "all"
C31_Witness ==
    /\ t_pc = "idle"
    /\ t_attempt = 2
    /\ response.kind = "results"
    /\ response.content_type = "all"
    /\ response.count > 0

\* C40: a results payload says exhausted only when the search behind it
\* stopped collecting short of the limit (the results wait timed out, three
\* iterations brought nothing new, or the scroll budget was spent), never when
\* its unique count had reached the limit; for every content_type.
C40_ExhaustedOnlyWhenNothingMore ==
    (t_pc = "idle" /\ response.kind = "results" /\ response.exhausted)
        => current_count < s_args.limit

----------------------------------------------------------------------------
(* Claims about fetch_and_analyze_posts *)

\* the tasks at position pc
tasks_at(pc) == {i \in 1 .. Len(tasks) : tasks[i].pc = pc}

\* C6: in every reachable state the tasks fetching metadata number at most
\* max(1, instaloader_concurrency) and the tasks analyzing a video at most
\* max(1, analysis_concurrency).
C6_ConcurrencyWithinLimits ==
    /\ Cardinality(tasks_at("fetching")) <= Max(1, settings.instaloader_concurrency)
    /\ Cardinality(tasks_at("analyzing")) <= Max(1, settings.analysis_concurrency)

\* C6 witness: with instaloader_concurrency 0 both stages are full, and a
\* task is held back at fetch_sem
C6_Witness ==
    /\ settings.instaloader_concurrency = 0
    /\ Cardinality(tasks_at("fetching")) = Max(1, settings.instaloader_concurrency)
    /\ Cardinality(tasks_at("analyzing")) = Max(1, settings.analysis_concurrency)
    /\ tasks_at("wait_fetch") # {}

\* C7 as stated: a failure of one item (its loader, its metadata, its video,
\* its inference) never makes the batch call raise and never keeps a sibling
\* from being fetched and analyzed; it is attached to that item's record only.
C7_ItemFailureStaysWithItem ==
    /\ b_pc # "raised"
    /\ b_response.kind = "batch" =>
          \A i \in 1 .. Len(tasks) :
             /\ tasks[i].error <=> tasks[i].post = "none"
             /\ tasks[i].post = "video" => tasks[i].analysis # "none"

\* the members of a sequence
members(seq) == {seq[k] : k \in 1 .. Len(seq)}

\* C8 as stated: once a batch call has ended, every input identifier is in
\* exactly one of posts and error_details, fetched + errors is the number of
\* identifiers, an identifier whose fetch failed is in error_details, and
\* every post with a video has an analysis.
C8_EveryIdentifierAccounted ==
    b_response.kind \in {"batch", "raised"} =>
        /\ b_response.kind = "batch"
        /\ b_response.fetched + b_response.errors = Len(tasks)
        /\ \A i \in 1 .. Len(tasks) :
              /\ (i \in members(b_response.posts))
                    # (i \in members(b_response.error_details))
              /\ tasks[i].error => i \in members(b_response.error_details)
              /\ tasks[i].post = "video" => i \in members(b_response.analyses)

\* C30: the analysis of an item waits for its own fetch and for a permit of
\* analyze_sem only: an item fetched with a video can enter its analysis
\* whenever a permit is free, whatever fetches of other items are still
\* waiting or running.
C30_AnalysisWaitsForOwnFetchOnly ==
    \A i \in 1 .. Len(tasks) :
        (tasks[i].pc = "wait_analyze" /\ analyze_sem > 0)
            => ENABLED AcquireAnalyzeSem(i)

\* C30 witness: one item is being analysed while another has not been
\* fetched yet
C30_Witness ==
    \E i, j \in 1 .. Len(tasks) :
        /\ tasks[i].pc = "analyzing"
        /\ tasks[j].pc \in {"wait_fetch", "fetching"}

\* C32: in the result of fetch_and_analyze_posts, analyses holds exactly the
\* fetched posts with a video url, analyzed counts exactly the items whose
\* analysis call returned, analysis_failed counts exactly the items whose
\* analysis call raised, with or without a message, and the two counts add up
\* to the length of analyses.
C32_AnalysisCountsByOutcome ==
    b_response.kind = "batch" =>
        /\ members(b_response.analyses)
              = {i \in 1 .. Len(tasks) : tasks[i].post = "video"}
        /\ b_response.analyzed
              = Cardinality({i \in 1 .. Len(tasks) : tasks[i].analysis = "ok"})
        /\ b_response.analysis_failed
              = Cardinality({i \in 1 .. Len(tasks) :
                               tasks[i].analysis \in {"error", "empty_error"}})
        /\ b_response.analyzed + b_response.analysis_failed
              = Len(b_response.analyses)

\* the permits of both semaphores are all accounted for: each is free or held
\* by a task inside its own stage, so a task waiting for an analyze permit or
\* holding one holds no fetch permit
PermitsAccounted ==
    /\ fetch_sem + Cardinality({i \in 1 .. Len(tasks) : tasks[i].pc = "fetching"})
           = permits(settings.instaloader_concurrency)
    /\ analyze_sem + Cardinality({i \in 1 .. Len(tasks) : tasks[i].pc = "analyzing"})
           = permits(settings.analysis_concurrency)

\* C39: a batch whose fetches and analyses all end, by returning or raising,
\* is answered: fetch_and_analyze_posts returns; meanwhile no task holds a
\* fetch permit outside its fetch, and on return every permit of both
\* semaphores is free.
C39_PipelineReturnsAndFreesPermits ==
    /\ [](b_pc = "gather" => PermitsAccounted)
    /\ []((b_pc = "returned" /\ b_response.kind = "batch") =>
            /\ fetch_sem = permits(settings.instaloader_concurrency)
            /\ analyze_sem = permits(settings.analysis_concurrency))
    /\ (b_pc = "gather") ~> (b_pc = "returned")

----------------------------------------------------------------------------
(* Claims about HumanBehavior *)

\* C22: scroll_to_load_more begins at most max_scrolls iterations and makes
\* at most as many scrolls, however the measured count moves from probe to
\* probe, and then returns; it scrolls only after a probe that measured less
\* than target_count, and a probe that measures target_count or more makes
\* it return that measurement with no scroll after the probe.
C22_LoadMoreBoundedAndReturns ==
    /\ [](/\ l_iter <= l_args.max_scrolls
          /\ l_scrolls <= l_iter
          /\ l_pc = "scroll" => l_new_count < l_args.target_count
          /\ (l_pc = "returned" /\ l_iter > 0
                 /\ l_new_count >= l_args.target_count)
             => l_returned = l_new_count /\ l_scrolls = l_iter - 1)
    /\ (l_pc = "probe" ~> l_pc = "returned")

\* C22 witness: every one of the most iterations was run, the last probe
\* still below the target
C22_Witness ==
    /\ l_pc = "returned"
    /\ l_args.max_scrolls = MaxScrollArg
    /\ l_scrolls = MaxScrollArg
    /\ l_new_count < l_args.target_count

\* C23: once 3 consecutive measurements of scroll_to_load_more have each
\* been no higher than the measurement before, it has returned, and it did
\* so before its max_scrolls scrolls were used up.
C23_StopsAfterThreeWithoutGrowth ==
    l_not_grown >= 3 =>
        /\ l_pc = "returned"
        /\ l_scrolls < l_args.max_scrolls

\* C24: when scroll_to_load_more has returned, by whichever exit, the value
\* returned is the last count it measured (if it measured any) and is at
\* least the number of items then on the page.
C24_ReturnsLastMeasuredAtLeastPage ==
    l_pc = "returned" =>
        /\ l_iter > 0 => l_returned = l_new_count
        /\ l_returned >= l_page_count

\* C25: outside fast mode every step of HumanBehavior that simulates an
\* action (a random_delay, a human_scroll, a human_type, an iteration of
\* scroll_to_load_more, a scroll of InstagramActions.search) raises the
\* session action counter by one or takes the session break, so that no more
\* than max_session_actions simulated actions pass without a break.
C25_EverySimulatedActionCounted ==
    [][(~humanizer.fast_mode /\ simulated' # simulated) =>
          /\ \/ humanizer'.action_count = humanizer.action_count + 1
             \/ takes_break(humanizer) /\ humanizer'.action_count = 0
          /\ simulated' <= max_session_actions]_vars

\* C35: outside fast mode the session limit stays within the configured range,
\* the counter is below the limit whenever no task is inside
\* _check_session_limit, at most one task is in a break at a time, and a break
\* begins only by the counter reaching the limit and ends with the counter at 0;
\* in fast mode neither field changes. Several tasks share the simulator.
C35_OneBreakPerSessionLimit ==
    [][/\ humanizer.fast_mode =>
             /\ humanizer'.action_count = humanizer.action_count
             /\ humanizer'.session_limit = humanizer.session_limit
       /\ ~humanizer.fast_mode =>
             /\ humanizer'.session_limit \in min_session_actions..max_session_actions
             /\ humanizer'.action_count >= 0
             /\ BreakIdle' => humanizer'.action_count < humanizer'.session_limit
             /\ Cardinality({k \in Callers : h_pc'[k] = "break"}) <= 1
             /\ \A k \in Callers :
                   /\ (h_pc[k] = "idle" /\ h_pc'[k] = "break") =>
                         humanizer'.action_count = humanizer.session_limit
                   /\ (h_pc[k] = "break" /\ h_pc'[k] = "idle") =>
                         humanizer'.action_count = 0]_vars

----------------------------------------------------------------------------
(* Claims about the MCP server *)

\* C34: while the search of one tool call is in flight the session's browser
\* context is open, none was closed under it, and no other tool call is
\* starting the browser or searching on it.
C34_BrowserSerializedForWholeCall ==
    \A k \in Callers :
        m_pc[k] = "searching" =>
            /\ started
            /\ k \notin m_lost
            /\ \A j \in Callers \ {k} : m_pc[j] \notin {"ensure_ready", "searching"}

====
